---- MODULE Spec2Model ----
(***************************************************************************)
(* Booking / availability engine of funch-hotel-backend                    *)
(* (src/src/services/bookingService.js).                                   *)
(*                                                                         *)
(* The booking table and the room directory live in an external store.     *)
(* Every store call is atomic and either answers or reports an error and   *)
(* leaves the table as it was.  Spec runs the service operations one at a  *)
(* time; SpecConc interleaves the store calls of concurrent requests;      *)
(* SpecCtl sends requests through the controller; SpecRooms adds the       *)
(* room-detail availability of roomsService.js; SpecRoomAdmin creates,     *)
(* updates and deletes rooms; SpecPages lists bookings page by page;       *)
(* SpecLogin and SpecRegister run the in-memory rate limiters; SpecAuth    *)
(* the token middleware; SpecImages the image service.                     *)
(***************************************************************************)
EXTENDS Integers, Sequences, FiniteSets, TLC

VARIABLES
    rooms,      \* room directory: room id -> total_rooms (nullable column)
    bookings,   \* booking table: booking id -> row
    nextId,     \* stands for uuidv4(): the next unused booking id
    res,        \* what the last service call received and returned
    procs,      \* SpecConc: the in-flight requests, one per process
    db,         \* the other tables of the store, one field per table
    mw          \* what the middleware keeps in memory between requests

vars == <<rooms, bookings, nextId, res, procs, db, mw>>

---------------------------------------------------------------------------
(* Bounds and input sets *)

MaxBookings == 2            \* rows ever inserted in one run of Spec

Null == << >>               \* SQL NULL / JS null / an absent field
Some(x) == << x >>
NoId == 0                   \* excludeBookingId = null

Users == {"u1"}
Hotels == {"h1"}
RoomIds == {"r1", "r2", "rNull", "rZero"}     \* rows of the rooms table
UnknownRoom == "r9"                           \* well-formed id, no such row
Procs == {1, 2}                               \* concurrent requests
RoomInputs == RoomIds \cup {UnknownRoom}
Dates == {1, 2}                               \* calendar days, not in the past
Prices == {100, 200}
NoteInputs == {Null, Some(""), Some("n")}     \* undefined/null, "", "n"
Statuses == {"active", "cancel"}

\* the other tables and the middleware memory as the model starts with them
InitDb ==
    [room_cols |-> [r \in RoomIds |->
                      [hotel_id |-> "h1", name_th |-> r, name_en |-> r, slug |-> Some(r)]],
     room_options |-> [r \in RoomIds |-> Some("bed")],
     room_base_prices |-> [r \in RoomIds |-> Some(100)],
     room_override_prices |-> {[room_id |-> "r1", price |-> 150]},
     roomSeq |-> 0,
     user_admin |-> [a \in {"a1", "a2"} |-> "active"],
     images |-> << >>,
     imageSeq |-> 0]

InitMw ==
    [now |-> 0, attempts |-> << >>, passed |-> [c \in {"ip1", "ip2"} |-> 0],
     registrationAttempts |-> << >>, registered |-> [c \in {"ip1", "ip2"} |-> << >>]]

\* total_rooms of the rooms the model starts with
InitRooms ==
    [r \in RoomIds |->
        CASE r = "r1" -> Some(1)
          [] r = "r2" -> Some(2)
          [] r = "rNull" -> Null
          [] OTHER -> Some(0)]

---------------------------------------------------------------------------
(* JavaScript conversions used by the service *)

\* the truth value of a string in a condition: the empty string is falsy
Truthy(v) == v # ""

\* ToNumber in `count < totalRooms` and `totalRooms - count`: null is 0
ToNumber(v) == IF v = Null THEN 0 ELSE v[1]

\* `note || null`: undefined, null and "" all become null
NoteOrNull(n) == IF n = Null \/ n = Some("") THEN Null ELSE n

\* `a || b` on an optional field whose supplied values are all truthy
\* (a well-formed id, a valid date)
OrElse(a, b) == IF a = Null THEN b ELSE a[1]

---------------------------------------------------------------------------
(* Store queries *)

\* CountActive without the .neq("id", excludeBookingId) filter
CountActiveNoExclude(bk, room_id, date, excludeBookingId) ==
    Cardinality({i \in DOMAIN bk : /\ bk[i].room_id = room_id
                                   /\ bk[i].date = date
                                   /\ bk[i].status = "active"})

\* CountActive without the .eq("date", date) filter
CountActiveAnyDate(bk, room_id, date, excludeBookingId) ==
    Cardinality({i \in DOMAIN bk : /\ bk[i].room_id = room_id
                                   /\ bk[i].status = "active"} \ {excludeBookingId})

\* .eq("room_id").eq("date").eq("status","active") [.neq("id", exclude)], count
CountActive(bk, room_id, date, excludeBookingId) ==
    LET q1 == {i \in DOMAIN bk : bk[i].room_id = room_id}
        q2 == {i \in q1 : bk[i].date = date}
        q3 == {i \in q2 : bk[i].status = "active"}
        q4 == IF excludeBookingId # NoId THEN q3 \ {excludeBookingId} ELSE q3
    IN Cardinality(q4)

\* a failed service call: { success: false, error }
Failure(msg) == [success |-> FALSE, error |-> msg]

\* checkRoomAvailability with `count <= totalRooms` for `count < totalRooms`
checkRoomAvailabilityLe(bk, rm, room_id, date, excludeBookingId, failAt) ==
    IF failAt = 1 \/ room_id \notin DOMAIN rm
    THEN Failure("Room not found")
    ELSE IF failAt = 2
    THEN Failure("Failed to check availability")
    ELSE LET totalRooms == rm[room_id]
             count == CountActive(bk, room_id, date, excludeBookingId)
         IN [success |-> TRUE,
             isAvailable |-> count <= ToNumber(totalRooms),
             totalRooms |-> totalRooms,
             currentBookings |-> count,
             availableRooms |-> ToNumber(totalRooms) - count]

\* the answer of the availability check from the two values read
Availability(totalRooms, count) ==
    [success |-> TRUE,
     isAvailable |-> count < ToNumber(totalRooms),
     totalRooms |-> totalRooms,
     currentBookings |-> count,
     availableRooms |-> ToNumber(totalRooms) - count]

\* BookingService.checkRoomAvailability; failAt = 1: the room read errors,
\* failAt = 2: the count query errors
checkRoomAvailability(bk, rm, room_id, date, excludeBookingId, failAt) ==
    IF failAt = 1 \/ room_id \notin DOMAIN rm
    THEN Failure("Room not found")
    ELSE IF failAt = 2
    THEN Failure("Failed to check availability")
    ELSE Availability(rm[room_id], CountActive(bk, room_id, date, excludeBookingId))

\* the error thrown when the check answers isAvailable = false
FullyBooked(date, check) ==
    [success |-> FALSE, error |-> "Room is fully booked for", date |-> date,
     totalRooms |-> check.totalRooms, currentBookings |-> check.currentBookings]

\* the row built by createBooking / createMultipleBookings for one date
NewBooking(data, date) ==
    [user_id |-> data.user_id, hotel_id |-> data.hotel_id,
     room_id |-> data.room_id, date |-> date, price |-> data.price,
     note |-> NoteOrNull(data.note), status |-> "active"]

\* table with row `row` added under id `id`
Insert(bk, id, row) == [i \in DOMAIN bk \cup {id} |-> IF i = id THEN row ELSE bk[i]]

---------------------------------------------------------------------------
(* Service operations: each returns the table after the call and the result *)

\* BookingService.getBookingById: .eq("id", id).single()
getBookingById(bk, id, failAt) ==
    IF failAt = 1 \/ id \notin DOMAIN bk
    THEN Failure("Booking not found")
    ELSE [success |-> TRUE, data |-> bk[id]]

\* BookingService.createBooking; store calls: 1 room read, 2 count, 3 insert
createBooking(bk, rm, id, data, failAt) ==
    LET check == checkRoomAvailability(bk, rm, data.room_id, data.date, NoId, failAt)
    IN IF ~check.success
       THEN [store |-> bk, out |-> Failure(check.error)]
       ELSE IF ~check.isAvailable
       THEN [store |-> bk, out |-> FullyBooked(data.date, check)]
       ELSE IF failAt = 3
       THEN [store |-> bk, out |-> Failure("Failed to create booking")]
       ELSE [store |-> Insert(bk, id, NewBooking(data, data.date)),
             out |-> [success |-> TRUE, data |-> {id}]]

\* table with one row per date of `dates` added, ids id, id+1, ...
InsertMany(bk, id, data, dates) ==
    [i \in DOMAIN bk \cup (id .. id + Len(dates) - 1) |->
        IF i \in id .. id + Len(dates) - 1
        THEN NewBooking(data, dates[i - id + 1])
        ELSE bk[i]]

\* the entry pushed on unavailableDates
UnavailableDate(c) ==
    [date |-> c.date, totalRooms |-> c.check.totalRooms,
     currentBookings |-> c.check.currentBookings]

\* createMultipleBookings in one phase: the rows of the available dates are
\* written although another date of the request is unavailable
createMultipleBookingsEager(bk, rm, id, data, failAt) ==
    LET dates == data.dates
        N == Len(dates)
        checks == [i \in 1 .. N |->
                     [date |-> dates[i],
                      check |-> checkRoomAvailability(bk, rm, data.room_id, dates[i],
                                                      NoId, failAt - 2 * (i - 1))]]
        thrown == {i \in 1 .. N : ~checks[i].check.success}
        first == CHOOSE i \in thrown : \A j \in thrown : i <= j
        unavailable == SelectSeq(SubSeq(checks, 1, N), LAMBDA c : ~c.check.isAvailable)
        available == SelectSeq(SubSeq(checks, 1, N), LAMBDA c : c.check.isAvailable)
        unavailableDates == [k \in 1 .. Len(unavailable) |-> UnavailableDate(unavailable[k])]
        availableDates == [k \in 1 .. Len(available) |-> available[k].date]
    IN IF N = 0
       THEN [store |-> bk, out |-> Failure("dates must be a non-empty array")]
       ELSE IF thrown # {}
       THEN [store |-> bk, out |-> Failure(checks[first].check.error)]
       ELSE IF unavailableDates # << >>
       THEN [store |-> InsertMany(bk, id, data, availableDates),
             out |-> [success |-> FALSE, error |-> "Room is fully booked for these dates",
                      unavailableDates |-> unavailableDates]]
       ELSE IF failAt = 2 * N + 1
       THEN [store |-> bk, out |-> Failure("Failed to create bookings")]
       ELSE [store |-> InsertMany(bk, id, data, dates),
             out |-> [success |-> TRUE, data |-> id .. id + N - 1,
                      count |-> N, dates |-> dates]]

\* createMultipleBookings that gives up at the first unavailable date and
\* reports that date alone
createMultipleBookingsFirstOnly(bk, rm, id, data, failAt) ==
    LET dates == data.dates
        N == Len(dates)
        checks == [i \in 1 .. N |->
                     [date |-> dates[i],
                      check |-> checkRoomAvailability(bk, rm, data.room_id, dates[i],
                                                      NoId, failAt - 2 * (i - 1))]]
        thrown == {i \in 1 .. N : ~checks[i].check.success}
        first == CHOOSE i \in thrown : \A j \in thrown : i <= j
        unavailable == SelectSeq(SubSeq(checks, 1, N), LAMBDA c : ~c.check.isAvailable)
    IN IF N = 0
       THEN [store |-> bk, out |-> Failure("dates must be a non-empty array")]
       ELSE IF thrown # {}
       THEN [store |-> bk, out |-> Failure(checks[first].check.error)]
       ELSE IF unavailable # << >>
       THEN [store |-> bk,
             out |-> [success |-> FALSE, error |-> "Room is fully booked for these dates",
                      unavailableDates |-> <<UnavailableDate(unavailable[1])>>]]
       ELSE IF failAt = 2 * N + 1
       THEN [store |-> bk, out |-> Failure("Failed to create bookings")]
       ELSE [store |-> InsertMany(bk, id, data, dates),
             out |-> [success |-> TRUE, data |-> id .. id + N - 1,
                      count |-> N, dates |-> dates]]

\* BookingService.createMultipleBookings; store calls: 2i-1 room read and
\* 2i count for dates[i], 2N+1 the one insert of all rows
createMultipleBookings(bk, rm, id, data, failAt) ==
    LET dates == data.dates
        N == Len(dates)
        checks == [i \in 1 .. N |->
                     [date |-> dates[i],
                      check |-> checkRoomAvailability(bk, rm, data.room_id, dates[i],
                                                      NoId, failAt - 2 * (i - 1))]]
        thrown == {i \in 1 .. N : ~checks[i].check.success}
        first == CHOOSE i \in thrown : \A j \in thrown : i <= j
        unavailable == SelectSeq(SubSeq(checks, 1, N), LAMBDA c : ~c.check.isAvailable)
        unavailableDates == [k \in 1 .. Len(unavailable) |-> UnavailableDate(unavailable[k])]
    IN IF N = 0
       THEN [store |-> bk, out |-> Failure("dates must be a non-empty array")]
       ELSE IF thrown # {}
       THEN [store |-> bk, out |-> Failure(checks[first].check.error)]
       ELSE IF unavailableDates # << >>
       THEN [store |-> bk,
             out |-> [success |-> FALSE, error |-> "Room is fully booked for these dates",
                      unavailableDates |-> unavailableDates]]
       ELSE IF failAt = 2 * N + 1
       THEN [store |-> bk, out |-> Failure("Failed to create bookings")]
       ELSE [store |-> InsertMany(bk, id, data, dates),
             out |-> [success |-> TRUE, data |-> id .. id + N - 1,
                      count |-> N, dates |-> dates]]

\* .update(cleanData).eq("id", id): the row with the supplied fields replaced
ApplyUpdate(row, cleanData) ==
    [row EXCEPT !.room_id = OrElse(cleanData.room_id, @),
                !.date = OrElse(cleanData.date, @),
                !.status = OrElse(cleanData.status, @),
                !.price = OrElse(cleanData.price, @),
                !.note = OrElse(cleanData.note, @)]

\* the update call of updateBooking: .update().eq().select().single()
UpdateRow(bk, id, cleanData, fails) ==
    IF fails \/ id \notin DOMAIN bk
    THEN [store |-> bk, out |-> Failure("Failed to update booking")]
    ELSE [store |-> [bk EXCEPT ![id] = ApplyUpdate(@, cleanData)],
          out |-> [success |-> TRUE, data |-> {id}]]

\* updateBooking that counts the booking itself: no excludeBookingId is passed
updateBookingSelfCount(bk, rm, id, cleanData, failAt) ==
    IF cleanData.status # Null /\ Truthy(cleanData.status[1]) /\ cleanData.status[1] \notin Statuses
    THEN [store |-> bk, out |-> Failure("Status must be either \"active\" or \"cancel\"")]
    ELSE IF cleanData.room_id # Null \/ cleanData.date # Null
    THEN LET currentBooking == getBookingById(bk, id, failAt)
         IN IF ~currentBooking.success
            THEN [store |-> bk, out |-> Failure("Booking not found")]
            ELSE LET room_id == OrElse(cleanData.room_id, currentBooking.data.room_id)
                     date == OrElse(cleanData.date, currentBooking.data.date)
                     check == checkRoomAvailability(bk, rm, room_id, date, NoId, failAt - 1)
                 IN IF ~check.success
                    THEN [store |-> bk, out |-> Failure(check.error)]
                    ELSE IF ~check.isAvailable
                    THEN [store |-> bk, out |-> FullyBooked(date, check)]
                    ELSE UpdateRow(bk, id, cleanData, failAt = 4)
    ELSE UpdateRow(bk, id, cleanData, failAt = 1)

\* updateBooking that writes the row first and checks afterwards, with no undo
updateBookingWriteFirst(bk, rm, id, cleanData, failAt) ==
    LET written == IF id \in DOMAIN bk
                   THEN [bk EXCEPT ![id] = ApplyUpdate(@, cleanData)]
                   ELSE bk
    IN IF cleanData.status # Null /\ Truthy(cleanData.status[1]) /\ cleanData.status[1] \notin Statuses
       THEN [store |-> bk, out |-> Failure("Status must be either \"active\" or \"cancel\"")]
       ELSE IF cleanData.room_id # Null \/ cleanData.date # Null
       THEN LET currentBooking == getBookingById(bk, id, failAt)
            IN IF ~currentBooking.success
               THEN [store |-> bk, out |-> Failure("Booking not found")]
               ELSE LET room_id == OrElse(cleanData.room_id, currentBooking.data.room_id)
                        date == OrElse(cleanData.date, currentBooking.data.date)
                        check == checkRoomAvailability(bk, rm, room_id, date, id, failAt - 1)
                    IN IF ~check.success
                       THEN [store |-> written, out |-> Failure(check.error)]
                       ELSE IF ~check.isAvailable
                       THEN [store |-> written, out |-> FullyBooked(date, check)]
                       ELSE UpdateRow(bk, id, cleanData, failAt = 4)
       ELSE UpdateRow(bk, id, cleanData, failAt = 1)

\* updateBooking that also checks availability when status active is supplied
updateBookingRecheck(bk, rm, id, cleanData, failAt) ==
    IF cleanData.status # Null /\ Truthy(cleanData.status[1]) /\ cleanData.status[1] \notin Statuses
    THEN [store |-> bk, out |-> Failure("Status must be either \"active\" or \"cancel\"")]
    ELSE IF cleanData.room_id # Null \/ cleanData.date # Null
            \/ cleanData.status = Some("active")
    THEN LET currentBooking == getBookingById(bk, id, failAt)
         IN IF ~currentBooking.success
            THEN [store |-> bk, out |-> Failure("Booking not found")]
            ELSE LET room_id == OrElse(cleanData.room_id, currentBooking.data.room_id)
                     date == OrElse(cleanData.date, currentBooking.data.date)
                     check == checkRoomAvailability(bk, rm, room_id, date, id, failAt - 1)
                 IN IF ~check.success
                    THEN [store |-> bk, out |-> Failure(check.error)]
                    ELSE IF ~check.isAvailable
                    THEN [store |-> bk, out |-> FullyBooked(date, check)]
                    ELSE UpdateRow(bk, id, cleanData, failAt = 4)
    ELSE UpdateRow(bk, id, cleanData, failAt = 1)

\* BookingService.updateBooking; store calls with room_id or date supplied:
\* 1 getBookingById, 2 room read, 3 count, 4 update; otherwise: 1 update
updateBooking(bk, rm, id, cleanData, failAt) ==
    IF cleanData.status # Null /\ Truthy(cleanData.status[1]) /\ cleanData.status[1] \notin Statuses
    THEN [store |-> bk, out |-> Failure("Status must be either \"active\" or \"cancel\"")]
    ELSE IF cleanData.room_id # Null \/ cleanData.date # Null
    THEN LET currentBooking == getBookingById(bk, id, failAt)
         IN IF ~currentBooking.success
            THEN [store |-> bk, out |-> Failure("Booking not found")]
            ELSE LET room_id == OrElse(cleanData.room_id, currentBooking.data.room_id)
                     date == OrElse(cleanData.date, currentBooking.data.date)
                     check == checkRoomAvailability(bk, rm, room_id, date, id, failAt - 1)
                 IN IF ~check.success
                    THEN [store |-> bk, out |-> Failure(check.error)]
                    ELSE IF ~check.isAvailable
                    THEN [store |-> bk, out |-> FullyBooked(date, check)]
                    ELSE UpdateRow(bk, id, cleanData, failAt = 4)
    ELSE UpdateRow(bk, id, cleanData, failAt = 1)

\* cancelBooking that refuses a booking that is already cancelled
cancelBookingStrict(bk, id, failAt) ==
    IF failAt = 1 \/ id \notin DOMAIN bk
    THEN [store |-> bk, out |-> Failure("Failed to cancel booking")]
    ELSE IF bk[id].status = "cancel"
    THEN [store |-> bk, out |-> Failure("Booking is already cancelled")]
    ELSE [store |-> [bk EXCEPT ![id].status = "cancel"],
          out |-> [success |-> TRUE, data |-> {id}]]

\* BookingService.cancelBooking: .update({status: "cancel"}).eq("id", id)
cancelBooking(bk, id, failAt) ==
    IF failAt = 1 \/ id \notin DOMAIN bk
    THEN [store |-> bk, out |-> Failure("Failed to cancel booking")]
    ELSE [store |-> [bk EXCEPT ![id].status = "cancel"],
          out |-> [success |-> TRUE, data |-> {id}]]

\* deleteBooking that only marks the row: status cancel, the row kept
deleteBookingSoft(bk, id, failAt) ==
    IF failAt = 1 \/ id \notin DOMAIN bk
    THEN [store |-> bk, out |-> Failure("Failed to delete booking")]
    ELSE [store |-> [bk EXCEPT ![id].status = "cancel"],
          out |-> [success |-> TRUE, data |-> [id |-> id, row |-> bk[id]]]]

\* BookingService.deleteBooking: .delete().eq("id", id).select().single()
deleteBooking(bk, id, failAt) ==
    IF failAt = 1 \/ id \notin DOMAIN bk
    THEN [store |-> bk, out |-> Failure("Failed to delete booking")]
    ELSE [store |-> [i \in DOMAIN bk \ {id} |-> bk[i]],
          out |-> [success |-> TRUE, data |-> [id |-> id, row |-> bk[id]]]]

---------------------------------------------------------------------------
(* Room-detail availability (src/src/services/roomsService.js), which reads *)
(* the same bookings table                                                  *)

\* a column of a row; the engine's rows carry no check_in / check_out: NULL
Column(row, name) == IF name \in DOMAIN row THEN Some(row[name]) ELSE Null

\* .in("status", [...]) of the room-detail queries
BookedStatuses == {"confirmed", "checked_in"}

\* a count in the engine's vocabulary: status active, date within the range
CountBookedEngine(bk, roomId, from, to) ==
    Cardinality({i \in DOMAIN bk : /\ bk[i].room_id = roomId
                                   /\ bk[i].status = "active"
                                   /\ bk[i].date >= from
                                   /\ bk[i].date <= to})

\* .eq("room_id").in("status", ...) and check_in <= to and check_out >= from;
\* a comparison with NULL selects nothing
CountBooked(bk, roomId, from, to) ==
    Cardinality({i \in DOMAIN bk :
                    /\ bk[i].room_id = roomId
                    /\ bk[i].status \in BookedStatuses
                    /\ Column(bk[i], "check_in") # Null
                    /\ Column(bk[i], "check_out") # Null
                    /\ Column(bk[i], "check_in")[1] <= to
                    /\ Column(bk[i], "check_out")[1] >= from})

\* Math.max(0, availableRooms)
Max0(n) == IF n > 0 THEN n ELSE 0

\* RoomsService.checkRoomAvailability(roomId, checkInDate, checkOutDate)
RoomsCheckRoomAvailability(bk, rm, roomId, checkInDate, checkOutDate, failAt) ==
    IF failAt = 1 \/ roomId \notin DOMAIN rm
    THEN Failure("Room not found")
    ELSE IF ToNumber(rm[roomId]) = 0
    THEN Failure("Room total count not set - cannot check availability")
    ELSE IF failAt = 2
    THEN Failure("Failed to check bookings")
    ELSE LET bookedRooms == CountBooked(bk, roomId, checkInDate, checkOutDate)
             availableRooms == rm[roomId][1] - bookedRooms
         IN [success |-> TRUE,
             data |-> [roomId |-> roomId, totalRooms |-> rm[roomId],
                       bookedRooms |-> bookedRooms,
                       availableRooms |-> Max0(availableRooms),
                       isAvailable |-> availableRooms > 0,
                       checkInDate |-> checkInDate, checkOutDate |-> checkOutDate]]

\* RoomsService.getCurrentRoomAvailability(roomId); today is the clock's date
getCurrentRoomAvailability(bk, rm, roomId, today, failAt) ==
    IF failAt = 1 \/ roomId \notin DOMAIN rm
    THEN Failure("Room not found")
    ELSE IF ToNumber(rm[roomId]) = 0
    THEN [success |-> TRUE,
          data |-> [roomId |-> roomId, totalRooms |-> rm[roomId],
                    status |-> "unavailable", message |-> "Room total count not set"]]
    ELSE IF failAt = 2
    THEN Failure("Failed to check current bookings")
    ELSE LET occupiedRooms == CountBooked(bk, roomId, today, today)
             availableRooms == rm[roomId][1] - occupiedRooms
         IN [success |-> TRUE,
             data |-> [roomId |-> roomId, totalRooms |-> rm[roomId],
                       occupiedRooms |-> occupiedRooms,
                       availableRooms |-> Max0(availableRooms),
                       isAvailable |-> availableRooms > 0,
                       status |-> IF availableRooms > 0 THEN "available" ELSE "fully_booked",
                       asOfDate |-> today]]

---------------------------------------------------------------------------
(* Actions of the sequential specifications: one service call each *)

\* the row a call addresses, as it was before the call
Before(id) == IF id \in DOMAIN bookings THEN Some(bookings[id]) ELSE Null

\* a check that tidies up while it reads: the cancelled rows of the room and
\* date are deleted
CheckRoomAvailabilityPurge(room_id, date, exclude, failAt) ==
    /\ res' = [op |-> "checkRoomAvailability", room_id |-> room_id, date |-> date,
               exclude |-> exclude, failAt |-> failAt,
               out |-> checkRoomAvailability(bookings, rooms, room_id, date, exclude, failAt)]
    /\ bookings' = [i \in {j \in DOMAIN bookings : ~(/\ bookings[j].room_id = room_id
                                                      /\ bookings[j].date = date
                                                      /\ bookings[j].status = "cancel")}
                      |-> bookings[i]]
    /\ UNCHANGED <<db, mw, rooms, nextId, procs>>

CheckRoomAvailability(room_id, date, exclude, failAt) ==
    /\ res' = [op |-> "checkRoomAvailability", room_id |-> room_id, date |-> date,
               exclude |-> exclude, failAt |-> failAt,
               out |-> checkRoomAvailability(bookings, rooms, room_id, date, exclude, failAt)]
    /\ UNCHANGED <<db, mw, rooms, bookings, nextId, procs>>

CreateBooking(data, failAt) ==
    LET r == createBooking(bookings, rooms, nextId, data, failAt)
    IN /\ r.out.success => nextId <= MaxBookings
       /\ bookings' = r.store
       /\ nextId' = IF r.out.success THEN nextId + 1 ELSE nextId
       /\ res' = [op |-> "createBooking", data |-> data, failAt |-> failAt, out |-> r.out]
       /\ UNCHANGED <<db, mw, rooms, procs>>

CreateMultipleBookings(data, failAt) ==
    LET r == createMultipleBookings(bookings, rooms, nextId, data, failAt)
    IN /\ r.out.success => nextId + Len(data.dates) - 1 <= MaxBookings
       /\ bookings' = r.store
       /\ nextId' = IF r.out.success THEN nextId + Len(data.dates) ELSE nextId
       /\ res' = [op |-> "createMultipleBookings", data |-> data, failAt |-> failAt,
                  out |-> r.out]
       /\ UNCHANGED <<db, mw, rooms, procs>>

UpdateBooking(id, updateData, failAt) ==
    LET r == updateBooking(bookings, rooms, id, updateData, failAt)
    IN /\ bookings' = r.store
       /\ res' = [op |-> "updateBooking", id |-> id, data |-> updateData, failAt |-> failAt,
                  before |-> Before(id), out |-> r.out]
       /\ UNCHANGED <<db, mw, rooms, nextId, procs>>

CancelBooking(id, failAt) ==
    LET r == cancelBooking(bookings, id, failAt)
    IN /\ bookings' = r.store
       /\ res' = [op |-> "cancelBooking", id |-> id, failAt |-> failAt,
                  before |-> Before(id), out |-> r.out]
       /\ UNCHANGED <<db, mw, rooms, nextId, procs>>

DeleteBooking(id, failAt) ==
    LET r == deleteBooking(bookings, id, failAt)
    IN /\ bookings' = r.store
       /\ res' = [op |-> "deleteBooking", id |-> id, failAt |-> failAt,
                  before |-> Before(id), out |-> r.out]
       /\ UNCHANGED <<db, mw, rooms, nextId, procs>>

RoomDetailAvailability(roomId, checkInDate, checkOutDate, failAt) ==
    /\ res' = [op |-> "RoomsService.checkRoomAvailability", roomId |-> roomId,
               checkInDate |-> checkInDate, checkOutDate |-> checkOutDate,
               failAt |-> failAt,
               out |-> RoomsCheckRoomAvailability(bookings, rooms, roomId, checkInDate,
                                                  checkOutDate, failAt)]
    /\ UNCHANGED <<db, mw, rooms, bookings, nextId, procs>>

GetCurrentRoomAvailability(roomId, today, failAt) ==
    /\ res' = [op |-> "getCurrentRoomAvailability", roomId |-> roomId, today |-> today,
               failAt |-> failAt,
               out |-> getCurrentRoomAvailability(bookings, rooms, roomId, today, failAt)]
    /\ UNCHANGED <<db, mw, rooms, bookings, nextId, procs>>

GetBookingById(id, failAt) ==
    /\ res' = [op |-> "getBookingById", id |-> id, failAt |-> failAt,
               out |-> getBookingById(bookings, id, failAt)]
    /\ UNCHANGED <<db, mw, rooms, bookings, nextId, procs>>

---------------------------------------------------------------------------
(* Inputs.  The controller lets through well-formed ids, positive prices,  *)
(* valid dates and, for a batch, 1 to 30 distinct dates.                  *)

BookingIds == 1 .. MaxBookings
Optional(S) == {Null} \cup {Some(x) : x \in S}

\* sequences of distinct dates
DateLists ==
    {<<d>> : d \in Dates} \cup {x \in Dates \X Dates : x[1] # x[2]}

\* the fields of an update that a family of inputs leaves out
NoFields ==
    [room_id |-> Null, date |-> Null, status |-> Null, price |-> Null, note |-> Null]

\* Spec: every room and date, one price and note
CheckInputs ==
    [room_id : RoomInputs, date : Dates, exclude : {NoId}]
    \cup [room_id : {"r1"}, date : Dates, exclude : BookingIds]

CreateInputs ==
    [user_id : Users, hotel_id : Hotels, room_id : RoomInputs, date : Dates,
     price : {100}, note : {Null}]

MultiInputs ==
    [user_id : Users, hotel_id : Hotels, room_id : {"r1", "r2", UnknownRoom},
     dates : DateLists, price : {100}, note : {Null}]

\* updates of room and date, of status, and of date with status;
\* "No fields to update" never reaches the service
UpdateInputs ==
    ({[NoFields EXCEPT !.room_id = r, !.date = d] :
          r \in Optional({"r1", "r2"}), d \in Optional(Dates)}
     \cup {[NoFields EXCEPT !.date = d, !.status = Some(st)] :
          d \in Optional(Dates), st \in Statuses}
     \cup {[NoFields EXCEPT !.room_id = Some(r)] : r \in {"rZero", UnknownRoom}})
    \ {NoFields}

Init ==
    /\ rooms = InitRooms
    /\ bookings = << >>
    /\ nextId = 1
    /\ res = [op |-> "none"]
    /\ procs = [p \in Procs |-> [pc |-> "idle"]]
    /\ db = InitDb
    /\ mw = InitMw

\* Spec: the store answers every call
Next ==
    \/ \E c \in CheckInputs : CheckRoomAvailability(c.room_id, c.date, c.exclude, 0)
    \/ \E data \in CreateInputs : CreateBooking(data, 0)
    \/ \E data \in MultiInputs : CreateMultipleBookings(data, 0)
    \/ \E id \in BookingIds, updateData \in UpdateInputs : UpdateBooking(id, updateData, 0)
    \/ \E id \in BookingIds : CancelBooking(id, 0)

Spec == Init /\ [][Next]_vars

\* SpecFault: any one store call of a service call may report an error
\* (rows of room r1; a batch of N dates issues 2N+1 store calls)
FaultCreateInputs ==
    [user_id : Users, hotel_id : Hotels, room_id : {"r1", UnknownRoom}, date : Dates,
     price : {100}, note : {Null}]

FaultMultiInputs ==
    [user_id : Users, hotel_id : Hotels, room_id : {"r1"}, dates : DateLists,
     price : {100}, note : {Null}]

FaultUpdateInputs ==
    {[NoFields EXCEPT !.date = Some(d)] : d \in Dates}
    \cup {[NoFields EXCEPT !.status = Some(st)] : st \in Statuses}
    \cup {[NoFields EXCEPT !.room_id = Some(UnknownRoom)]}
    \cup {[NoFields EXCEPT !.status = Some("confirmed")]}

NextFault ==
    \/ \E data \in FaultCreateInputs, failAt \in 0 .. 3 : CreateBooking(data, failAt)
    \/ \E data \in FaultMultiInputs : \E failAt \in 0 .. 2 * Len(data.dates) + 1 :
          CreateMultipleBookings(data, failAt)
    \/ \E id \in BookingIds, updateData \in FaultUpdateInputs, failAt \in 0 .. 4 :
          UpdateBooking(id, updateData, failAt)
    \/ \E id \in BookingIds, failAt \in 0 .. 1 : CancelBooking(id, failAt)
    \/ \E room_id \in {"r1", UnknownRoom}, date \in Dates, failAt \in 0 .. 2 :
          CheckRoomAvailability(room_id, date, NoId, failAt)

SpecFault == Init /\ [][NextFault]_vars

\* SpecFields: one room and date, every price and note
FieldCreateInputs ==
    [user_id : Users, hotel_id : Hotels, room_id : {"r1"}, date : {1},
     price : Prices, note : NoteInputs]

FieldUpdateInputs ==
    [room_id : {Null}, date : {Null}, status : Optional(Statuses),
     price : Optional(Prices), note : Optional({Null, Some("n")})]
    \ {NoFields}

NextFields ==
    \/ \E data \in FieldCreateInputs : CreateBooking(data, 0)
    \/ \E id \in BookingIds, updateData \in FieldUpdateInputs : UpdateBooking(id, updateData, 0)
    \/ \E id \in BookingIds : CancelBooking(id, 0)
    \/ \E id \in BookingIds : GetBookingById(id, 0)

SpecFields == Init /\ [][NextFields]_vars

\* SpecDelete: rows are created, cancelled and hard-deleted; the delete call
\* may report a store error
DeleteCreateInputs ==
    [user_id : Users, hotel_id : Hotels, room_id : {"r1", "r2"}, date : Dates,
     price : {100}, note : {Null}]

NextDelete ==
    \/ \E data \in DeleteCreateInputs : CreateBooking(data, 0)
    \/ \E id \in BookingIds : CancelBooking(id, 0)
    \/ \E id \in BookingIds, failAt \in 0 .. 1 : DeleteBooking(id, failAt)
    \/ \E r \in {"r1", "r2"}, d \in Dates : CheckRoomAvailability(r, d, NoId, 0)

SpecDelete == Init /\ [][NextDelete]_vars

\* SpecRooms: the engine fills and changes the table, the room-detail
\* operations read it
NextRooms ==
    \/ \E data \in DeleteCreateInputs : CreateBooking(data, 0)
    \/ \E data \in FaultMultiInputs : CreateMultipleBookings(data, 0)
    \/ \E id \in BookingIds, updateData \in FaultUpdateInputs : UpdateBooking(id, updateData, 0)
    \/ \E id \in BookingIds : CancelBooking(id, 0)
    \/ \E id \in BookingIds : DeleteBooking(id, 0)
    \/ \E roomId \in RoomInputs, checkInDate \in Dates, checkOutDate \in Dates :
          /\ checkInDate <= checkOutDate
          /\ RoomDetailAvailability(roomId, checkInDate, checkOutDate, 0)
    \/ \E roomId \in RoomInputs, today \in Dates : GetCurrentRoomAvailability(roomId, today, 0)

SpecRooms == Init /\ [][NextRooms]_vars

---------------------------------------------------------------------------
(* The booking controller (src/src/controllers/bookingController.js):      *)
(* validation of the request, the service call, the HTTP status.           *)

Today == 1                  \* the day of `new Date()`; smaller days are past
MaxDates == 30              \* dates.length > 30 is refused
MalformedId == -1           \* an :id the UUID pattern rejects

\* the strings the UUID pattern accepts, among those the model sends
UUIDs == Users \cup Hotels \cup RoomInputs

\* uuidRegex.test(v), for a user, hotel or room id and for a booking id
uuidRegex(v) == v \in UUIDs
uuidRegexId(id) == id # MalformedId

\* Date strings: two spellings of a calendar day, and a string that is no date
DateText(day) == [form |-> "YYYY-MM-DD", day |-> day]
DateTimeText(day) == [form |-> "YYYY-MM-DDT00:00:00.000Z", day |-> day]
NotADate == [form |-> "not a date", day |-> 0]

\* new Date(s): the day the string denotes, or Null for NaN (Invalid Date)
NewDate(s) == IF s.form = "not a date" THEN Null ELSE Some(s.day)

\* bookingDate < today (false for Invalid Date)
InThePast(s) == NewDate(s) # Null /\ NewDate(s)[1] < Today

\* the day the store's date column keeps of a date string
DayOf(s) == NewDate(s)[1]

\* errors.push(msg) when the condition holds
PushIf(cond, msg) == IF cond THEN <<[msg |-> msg, index |-> Null]>> ELSE << >>

\* dates.forEach: one entry per date that is not valid or is in the past
DatesErrors(dates) ==
    LET each == [k \in 1 .. Len(dates) |->
                    IF NewDate(dates[k]) = Null
                    THEN [msg |-> "dates[index] must be valid date", index |-> Some(k - 1)]
                    ELSE IF InThePast(dates[k])
                    THEN [msg |-> "dates[index] cannot be in the past", index |-> Some(k - 1)]
                    ELSE [msg |-> "", index |-> Null]]
    IN SelectSeq(SubSeq(each, 1, Len(dates)), LAMBDA e : e.msg # "")

\* dates && Array.isArray(dates) && dates.length > 0
isMultipleDates(body) == body.dates # Null /\ Len(body.dates[1]) > 0

\* isSingleDate that looks at date alone
isSingleDateFirst(body) == body.date # Null

\* date && !isMultipleDates
isSingleDate(body) == body.date # Null /\ ~isMultipleDates(body)

\* the errors array of BookingController.createBooking
CreateErrors(body) ==
    PushIf(body.user_id = Null, "user_id is required")
    \o PushIf(body.hotel_id = Null, "hotel_id is required")
    \o PushIf(body.room_id = Null, "room_id is required")
    \o PushIf(body.price = Null \/ ToNumber(body.price) <= 0, "price must be greater than 0")
    \o PushIf(body.user_id # Null /\ ~uuidRegex(OrElse(body.user_id, "")),
              "user_id must be valid UUID")
    \o PushIf(body.hotel_id # Null /\ ~uuidRegex(OrElse(body.hotel_id, "")),
              "hotel_id must be valid UUID")
    \o PushIf(body.room_id # Null /\ ~uuidRegex(OrElse(body.room_id, "")),
              "room_id must be valid UUID")
    \o (IF isSingleDate(body)
        THEN PushIf(NewDate(body.date[1]) = Null, "date must be valid date")
             \o PushIf(InThePast(body.date[1]), "date cannot be in the past")
        ELSE << >>)
    \o (IF isMultipleDates(body)
        THEN LET dates == body.dates[1]
             IN PushIf(Len(dates) > MaxDates, "maximum 30 dates allowed per booking")
                \o DatesErrors(dates)
                \o PushIf(Cardinality({dates[k] : k \in 1 .. Len(dates)}) # Len(dates),
                          "duplicate dates are not allowed")
        ELSE << >>)

\* UpdateErrors without the check of the status value
UpdateErrorsAnyStatus(body) ==
    PushIf(body.price # Null /\ ToNumber(body.price) <= 0, "price must be greater than 0")
    \o PushIf(body.room_id # Null /\ ~uuidRegex(OrElse(body.room_id, "")),
              "room_id must be valid UUID")
    \o (IF body.date # Null
        THEN PushIf(NewDate(body.date[1]) = Null, "date must be valid date")
             \o PushIf(InThePast(body.date[1]), "date cannot be in the past")
        ELSE << >>)

\* the errors array of BookingController.updateBooking
UpdateErrors(body) ==
    PushIf(body.price # Null /\ ToNumber(body.price) <= 0, "price must be greater than 0")
    \o PushIf(body.status # Null /\ OrElse(body.status, "") \notin Statuses,
              "status must be either \"active\" or \"cancel\"")
    \o PushIf(body.room_id # Null /\ ~uuidRegex(OrElse(body.room_id, "")),
              "room_id must be valid UUID")
    \o (IF body.date # Null
        THEN PushIf(NewDate(body.date[1]) = Null, "date must be valid date")
             \o PushIf(InThePast(body.date[1]), "date cannot be in the past")
        ELSE << >>)

\* result.error.includes(part), for the messages the service produces
Includes(error, part) ==
    CASE part = "not found" -> error \in {"Room not found", "Booking not found"}
      [] part = "fully booked" -> error \in {"Room is fully booked for",
                                             "Room is fully booked for these dates"}
      [] OTHER -> FALSE

\* the status of a failed service call: the branches of one controller
FailureStatus(error, notFound, fullyBooked) ==
    IF notFound /\ Includes(error, "not found") THEN 404
    ELSE IF fullyBooked /\ Includes(error, "fully booked") THEN 409
    ELSE 500

\* the store calls a service call issues when the store answers each of them
createBookingCalls(bk, rm, data) ==
    LET check == checkRoomAvailability(bk, rm, data.room_id, data.date, NoId, 0)
    IN IF ~check.success THEN 1 ELSE IF ~check.isAvailable THEN 2 ELSE 3

createMultipleBookingsCalls(bk, rm, data) ==
    IF data.room_id \notin DOMAIN rm THEN 1
    ELSE IF createMultipleBookings(bk, rm, 0, data, 0).out.success
    THEN 2 * Len(data.dates) + 1
    ELSE 2 * Len(data.dates)

updateBookingCalls(bk, rm, id, cleanData) ==
    IF cleanData.status # Null /\ Truthy(cleanData.status[1]) /\ cleanData.status[1] \notin Statuses THEN 0
    ELSE IF cleanData.room_id = Null /\ cleanData.date = Null THEN 1
    ELSE IF id \notin DOMAIN bk THEN 1
    ELSE IF OrElse(cleanData.room_id, bk[id].room_id) \notin DOMAIN rm THEN 2
    ELSE IF updateBooking(bk, rm, id, cleanData, 0).out.success THEN 4
    ELSE 3

\* the data the service is called with; the store keeps the day of a date string
CreateData(body) ==
    [user_id |-> body.user_id[1], hotel_id |-> body.hotel_id[1],
     room_id |-> body.room_id[1], price |-> body.price[1], note |-> body.note]

UpdateData(body) ==
    [room_id |-> body.room_id,
     date |-> IF body.date = Null THEN Null ELSE Some(DayOf(body.date[1])),
     status |-> body.status, price |-> body.price, note |-> body.note]

\* BookingController.createBooking (POST /api/bookings)
BookingController_createBooking(bk, rm, id, body) ==
    IF ~isSingleDate(body) /\ ~isMultipleDates(body)
    THEN [store |-> bk, status |-> 400, calls |-> 0,
          body |-> [success |-> FALSE,
                    message |-> "Either 'date' (string) or 'dates' (array) must be provided"]]
    ELSE IF CreateErrors(body) # << >>
    THEN [store |-> bk, status |-> 400, calls |-> 0,
          body |-> [success |-> FALSE, message |-> "Validation failed",
                    errors |-> CreateErrors(body)]]
    ELSE IF isSingleDate(body)
    THEN LET data == [date |-> DayOf(body.date[1])] @@ CreateData(body)
             result == createBooking(bk, rm, id, data, 0)
         IN [store |-> result.store,
             status |-> IF result.out.success THEN 201
                        ELSE FailureStatus(result.out.error, FALSE, TRUE),
             calls |-> createBookingCalls(bk, rm, data),
             body |-> result.out]
    ELSE LET dates == body.dates[1]
             data == [dates |-> [k \in 1 .. Len(dates) |-> DayOf(dates[k])]]
                        @@ CreateData(body)
             result == createMultipleBookings(bk, rm, id, data, 0)
         IN [store |-> result.store,
             status |-> IF result.out.success THEN 201
                        ELSE FailureStatus(result.out.error, FALSE, TRUE),
             calls |-> createMultipleBookingsCalls(bk, rm, data),
             body |-> result.out]

\* BookingController.updateBooking (PUT /api/bookings/:id)
BookingController_updateBooking(bk, rm, id, body) ==
    IF ~uuidRegexId(id)
    THEN [store |-> bk, status |-> 400, calls |-> 0,
          body |-> [success |-> FALSE, message |-> "Invalid booking ID format"]]
    ELSE IF UpdateErrors(body) # << >>
    THEN [store |-> bk, status |-> 400, calls |-> 0,
          body |-> [success |-> FALSE, message |-> "Validation failed",
                    errors |-> UpdateErrors(body)]]
    ELSE IF body = NoFields
    THEN [store |-> bk, status |-> 400, calls |-> 0,
          body |-> [success |-> FALSE, message |-> "No fields to update"]]
    ELSE LET result == updateBooking(bk, rm, id, UpdateData(body), 0)
         IN [store |-> result.store,
             status |-> IF result.out.success THEN 200
                        ELSE FailureStatus(result.out.error, TRUE, TRUE),
             calls |-> updateBookingCalls(bk, rm, id, UpdateData(body)),
             body |-> result.out]

\* BookingController.cancelBooking, deleteBooking, getBookingById: the id is
\* checked, the service called, its failure mapped to a status
BookingController_byId(bk, id, result, notFound, otherwise) ==
    IF ~uuidRegexId(id)
    THEN [store |-> bk, status |-> 400, calls |-> 0,
          body |-> [success |-> FALSE, message |-> "Invalid booking ID format"]]
    ELSE [store |-> result.store,
          status |-> IF result.out.success THEN 200
                     ELSE IF notFound /\ Includes(result.out.error, "not found") THEN 404
                     ELSE otherwise,
          calls |-> 1,
          body |-> result.out]

\* BookingController.checkRoomAvailability (GET /api/bookings/room/:roomId/availability)
BookingController_checkRoomAvailability(bk, rm, roomId, date) ==
    IF ~uuidRegex(roomId)
    THEN [store |-> bk, status |-> 400, calls |-> 0,
          body |-> [success |-> FALSE, message |-> "Invalid room ID format"]]
    ELSE IF date = Null
    THEN [store |-> bk, status |-> 400, calls |-> 0,
          body |-> [success |-> FALSE, message |-> "date is required"]]
    ELSE IF NewDate(date[1]) = Null
    THEN [store |-> bk, status |-> 400, calls |-> 0,
          body |-> [success |-> FALSE, message |-> "Invalid date format"]]
    ELSE LET result == checkRoomAvailability(bk, rm, roomId, DayOf(date[1]), NoId, 0)
         IN [store |-> bk,
             status |-> IF result.success THEN 200
                        ELSE FailureStatus(result.error, TRUE, FALSE),
             calls |-> IF roomId \in DOMAIN rm THEN 2 ELSE 1,
             body |-> result]

\* SpecCtl: requests as the routes receive them, well-formed or not
Respond(op, req, r) ==
    /\ Cardinality(DOMAIN r.store \ DOMAIN bookings) + nextId - 1 <= MaxBookings
    /\ bookings' = r.store
    /\ nextId' = nextId + Cardinality(DOMAIN r.store \ DOMAIN bookings)
    /\ res' = [op |-> op, req |-> req, status |-> r.status, calls |-> r.calls,
               out |-> r.body]
    /\ UNCHANGED <<db, mw, rooms, procs>>

PostBooking(body) ==
    Respond("POST /", [body |-> body],
            BookingController_createBooking(bookings, rooms, nextId, body))

PutBooking(id, body) ==
    Respond("PUT /:id", [id |-> id, body |-> body],
            BookingController_updateBooking(bookings, rooms, id, body))

PatchCancel(id) ==
    Respond("PATCH /:id/cancel", [id |-> id],
            BookingController_byId(bookings, id, cancelBooking(bookings, id, 0), TRUE, 500))

DeleteById(id) ==
    Respond("DELETE /:id", [id |-> id],
            BookingController_byId(bookings, id, deleteBooking(bookings, id, 0), TRUE, 500))

GetById(id) ==
    Respond("GET /:id", [id |-> id],
            BookingController_byId(bookings, id,
                                   [store |-> bookings, out |-> getBookingById(bookings, id, 0)],
                                   FALSE, 404))

GetAvailability(roomId, date) ==
    Respond("GET /room/:roomId/availability", [roomId |-> roomId, date |-> date],
            BookingController_checkRoomAvailability(bookings, rooms, roomId, date))

\* a request body that passes validation, varied one field at a time
GoodPost ==
    [user_id |-> Some("u1"), hotel_id |-> Some("h1"), room_id |-> Some("r1"),
     date |-> Some(DateText(1)), dates |-> Null, price |-> Some(100), note |-> Null]

PostDateLists ==
    {<<DateText(1), DateText(2)>>, <<DateText(2)>>, << >>,
     <<DateText(1), NotADate>>, <<DateText(0), DateText(1)>>,
     <<DateText(1), DateText(1)>>, <<DateText(1), DateTimeText(1)>>,
     [k \in 1 .. MaxDates + 1 |-> DateText(k)]}

PostBodies ==
    {[GoodPost EXCEPT !.room_id = Some(r), !.date = Some(d)] :
        r \in {"r1", UnknownRoom}, d \in {DateText(1), DateText(2), DateTimeText(1)}}
    \cup {[GoodPost EXCEPT ![f] = v] :
            f \in {"user_id", "hotel_id", "room_id"}, v \in {Null, Some("no-uuid")}}
    \cup {[GoodPost EXCEPT !.price = v] : v \in {Null, Some(0), Some(-5)}}
    \cup {[GoodPost EXCEPT !.date = v] : v \in {Null, Some(NotADate), Some(DateText(0))}}
    \cup {[GoodPost EXCEPT !.date = Null, !.dates = Some(ds)] : ds \in PostDateLists}
    \cup {[GoodPost EXCEPT !.room_id = Some(UnknownRoom), !.date = Null,
                           !.dates = Some(<<DateText(1), DateText(2)>>)]}
    \cup {[GoodPost EXCEPT !.date = Some(d), !.dates = Some(ds)] :
            d \in {DateText(1), NotADate}, ds \in {<<DateText(2)>>, << >>}}
    \cup {[GoodPost EXCEPT !.date = Null, !.user_id = Null]}

PutBodies ==
    {[NoFields EXCEPT !.price = Some(v)] : v \in {0, -5}}
    \cup {[NoFields EXCEPT !.status = Some(v)] : v \in {"active", "cancel", "confirmed", ""}}
    \cup {[NoFields EXCEPT !.room_id = Some(v)] : v \in {"no-uuid", UnknownRoom}}
    \cup {[NoFields EXCEPT !.date = Some(v)] : v \in {NotADate, DateText(0), DateText(2)}}
    \cup {NoFields}

IdParams == BookingIds \cup {MalformedId}

NextCtl ==
    \/ \E body \in PostBodies : PostBooking(body)
    \/ \E id \in IdParams, body \in PutBodies : PutBooking(id, body)
    \/ \E id \in IdParams : PatchCancel(id)
    \/ \E id \in IdParams : DeleteById(id)
    \/ \E id \in IdParams : GetById(id)
    \/ \E roomId \in {"r1", UnknownRoom, "no-uuid"},
          date \in {Null, Some(NotADate), Some(DateText(1))} :
          GetAvailability(roomId, date)

SpecCtl == Init /\ [][NextCtl]_vars

---------------------------------------------------------------------------
(***************************************************************************)
(* Room administration (src/src/services/roomsService.js): the rooms table *)
(* with its options, base prices and override prices.  db.room_cols holds  *)
(* the columns of a rooms row other than total_rooms.  An optional number  *)
(* of a request is Null when undefined and Some(v) when supplied, v the    *)
(* nullable value.                                                         *)
(***************************************************************************)
UnknownHotel == "h9"                   \* well-formed id, no such hotel
NewRoomIds == <<"r3", "r4", "r5">>     \* uuidv4() of the rooms created

\* `!x` on an optional number: undefined, null and 0 are falsy
FalsyNumber(x) == x = Null \/ x[1] = Null \/ x[1][1] = 0

\* `x < 1` that leaves null alone
BelowOneNotNull(x) == x[1] # Null /\ x[1][1] < 1

\* `x < 1` on a supplied number: null compares as 0
BelowOne(x) == ToNumber(x[1]) < 1

\* RoomsService.getRoomById: .from("rooms").select(...).eq("id", id).single()
getRoomById(rm, d, id, fails) ==
    IF fails \/ id \notin DOMAIN rm
    THEN Failure("Room not found")
    ELSE [success |-> TRUE,
          data |-> [room |-> [id |-> id, total_rooms |-> rm[id]] @@ d.room_cols[id],
                    options |-> IF id \in DOMAIN d.room_options
                                THEN Some(d.room_options[id]) ELSE Null]]

\* RoomsService.verifyHotelExists: .from("hotels").eq("id", hotelId).single()
verifyHotelExists(hotelId, fails) ==
    IF fails \/ hotelId \notin Hotels
    THEN Failure("Hotel not found")
    ELSE [success |-> TRUE]

\* RoomsService.checkDuplicateRoomName: rooms of the hotel with one of the
\* names, the room itself left out when excludeId is given
checkDuplicateRoomName(cols, name_th, name_en, hotel_id, excludeId, fails) ==
    LET data == {r \in DOMAIN cols : /\ cols[r].hotel_id = hotel_id
                                     /\ cols[r].name_th = name_th \/ cols[r].name_en = name_en
                                     /\ excludeId # Null => r # excludeId[1]}
    IN IF fails THEN Failure("Database error")
       ELSE [success |-> TRUE, hasDuplicates |-> data # {},
             duplicates |-> [name_th |-> \E r \in data : cols[r].name_th = name_th,
                             name_en |-> \E r \in data : cols[r].name_en = name_en]]

\* RoomsService.checkDuplicateSlug: rooms with the slug, anywhere
checkDuplicateSlug(cols, slug, excludeId, fails) ==
    LET data == {r \in DOMAIN cols : /\ cols[r].slug = Some(slug)
                                     /\ excludeId # Null => r # excludeId[1]}
    IN IF fails THEN Failure("Database error")
       ELSE [success |-> TRUE, hasDuplicate |-> data # {}]

\* the message of the duplicate-name conflict
DuplicateNames == "Duplicate name: already exists"

\* the rows of room_override_prices for a list of prices
OverrideRows(roomId, prices) == {[room_id |-> roomId, price |-> prices[k]] : k \in DOMAIN prices}

\* RoomsService.checkRoomHasBookings: the count of the room's bookings with
\* .in("status", ["confirmed", "checked_in", "pending"])
checkRoomHasBookings(bk, roomId, fails) ==
    LET count == Cardinality({i \in DOMAIN bk : /\ bk[i].room_id = roomId
                                                /\ bk[i].status \in {"confirmed", "checked_in", "pending"}})
    IN IF fails THEN Failure("Failed to check bookings")
       ELSE [success |-> TRUE, hasBookings |-> count > 0, bookingsCount |-> count]

\* the tables without the rows of a room, table by table
WithoutOverridePrices(d, id) ==
    [d EXCEPT !.room_override_prices = {p \in @ : p.room_id # id}]
WithoutBasePrices(d, id) ==
    [d EXCEPT !.room_base_prices = [r \in DOMAIN @ \ {id} |-> @[r]]]
WithoutOptions(d, id) ==
    [d EXCEPT !.room_options = [r \in DOMAIN @ \ {id} |-> @[r]]]
WithoutRoom(d, id) ==
    [d EXCEPT !.room_cols = [r \in DOMAIN @ \ {id} |-> @[r]]]

\* RoomsService.deleteRoom; store calls: 1 getRoomById, 2 the count of
\* bookings, 3 delete override prices, 4 delete base prices, 5 delete
\* options, 6 delete the room
deleteRoom(bk, rm, d, id, failAt) ==
    LET roomCheck == getRoomById(rm, d, id, failAt = 1)
        bookingsCheck == checkRoomHasBookings(bk, id, failAt = 2)
        d3 == WithoutOverridePrices(d, id)
        d4 == WithoutBasePrices(d3, id)
        d5 == WithoutOptions(d4, id)
    IN IF ~roomCheck.success
       THEN [rm |-> rm, db |-> d, out |-> Failure("Room not found")]
       ELSE IF ~bookingsCheck.success
       THEN [rm |-> rm, db |-> d, out |-> Failure(bookingsCheck.error)]
       ELSE IF bookingsCheck.hasBookings
       THEN [rm |-> rm, db |-> d,
             out |-> Failure("Cannot delete room that has existing bookings")]
       ELSE IF failAt = 3
       THEN [rm |-> rm, db |-> d, out |-> Failure("Failed to delete override prices")]
       ELSE IF failAt = 4
       THEN [rm |-> rm, db |-> d3, out |-> Failure("Failed to delete base prices")]
       ELSE IF failAt = 5
       THEN [rm |-> rm, db |-> d4, out |-> Failure("Failed to delete room options")]
       ELSE IF failAt = 6
       THEN [rm |-> rm, db |-> d5, out |-> Failure("Failed to delete room")]
       ELSE [rm |-> [r \in DOMAIN rm \ {id} |-> rm[r]], db |-> WithoutRoom(d5, id),
             out |-> [success |-> TRUE, data |-> id]]

\* RoomsController.deleteRoom: 409 for the conflict, 404 for every other
\* failure
RoomsController_deleteRoom(out) ==
    IF out.success THEN 200
    ELSE IF out.error = "Cannot delete room that has existing bookings" THEN 409
    ELSE 404

\* RoomsService.createRoom; store calls: 1 verifyHotelExists, 2 the names,
\* 3 the slug, 4 insert the room, 5 insert options, 6 insert base prices,
\* 7 insert override prices
createRoom(rm, d, roomData, failAt) ==
    LET roomId == NewRoomIds[d.roomSeq + 1]
        hotelCheck == verifyHotelExists(roomData.hotel_id, failAt = 1)
        duplicateCheck == checkDuplicateRoomName(d.room_cols, roomData.name_th, roomData.name_en,
                                                 roomData.hotel_id, Null, failAt = 2)
        slugCheck == checkDuplicateSlug(d.room_cols, roomData.slug[1], Null, failAt = 3)
        rm4 == [r \in DOMAIN rm \cup {roomId} |->
                   IF r = roomId THEN roomData.total_rooms[1] ELSE rm[r]]
        d4 == [d EXCEPT !.roomSeq = @ + 1,
                        !.room_cols = [r \in DOMAIN @ \cup {roomId} |->
                            IF r = roomId
                            THEN [hotel_id |-> roomData.hotel_id, name_th |-> roomData.name_th,
                                  name_en |-> roomData.name_en, slug |-> roomData.slug]
                            ELSE @[r]]]
        d5 == [d4 EXCEPT !.room_options = [r \in DOMAIN @ \cup {roomId} |->
                            IF r = roomId THEN roomData.room_options ELSE @[r]]]
        d6 == [d5 EXCEPT !.room_base_prices = [r \in DOMAIN @ \cup {roomId} |->
                            IF r = roomId THEN roomData.base_prices ELSE @[r]]]
        prices == OrElse(roomData.override_prices, << >>)
        d7 == [d6 EXCEPT !.room_override_prices = @ \cup OverrideRows(roomId, prices)]
    IN IF FalsyNumber(roomData.total_rooms) \/ BelowOne(roomData.total_rooms)
       THEN [rm |-> rm, db |-> d,
             out |-> Failure("Total rooms must be at least 1 to create a room")]
       ELSE IF ~hotelCheck.success
       THEN [rm |-> rm, db |-> d, out |-> Failure(hotelCheck.error)]
       ELSE IF ~duplicateCheck.success
       THEN [rm |-> rm, db |-> d, out |-> Failure(duplicateCheck.error)]
       ELSE IF duplicateCheck.hasDuplicates
       THEN [rm |-> rm, db |-> d, out |-> Failure(DuplicateNames)]
       ELSE IF roomData.slug # Null /\ ~slugCheck.success
       THEN [rm |-> rm, db |-> d, out |-> Failure(slugCheck.error)]
       ELSE IF roomData.slug # Null /\ slugCheck.hasDuplicate
       THEN [rm |-> rm, db |-> d, out |-> Failure("Duplicate slug: already exists")]
       ELSE IF failAt = 4
       THEN [rm |-> rm, db |-> d, out |-> Failure("Failed to create room")]
       ELSE IF failAt = 5
       THEN [rm |-> rm4, db |-> d4, out |-> Failure("Failed to create room options")]
       ELSE IF failAt = 6
       THEN [rm |-> rm4, db |-> d5, out |-> Failure("Failed to create base prices")]
       ELSE IF prices # << >> /\ failAt = 7
       THEN [rm |-> rm4, db |-> d6, out |-> Failure("Failed to create override prices")]
       ELSE [rm |-> rm4, db |-> d7,
             out |-> [success |-> TRUE,
                      data |-> [room |-> roomId, options |-> roomData.room_options,
                                base_prices |-> roomData.base_prices,
                                override_prices |-> prices]]]

\* the fields of a request that belong to the rooms row
roomFields == {"hotel_id", "name_th", "name_en", "total_rooms", "slug"}

\* .from("rooms").update(roomUpdateData).eq("id", id): the supplied columns
\* replaced
UpdatedCols(row, updateData) ==
    [hotel_id |-> OrElse(updateData.hotel_id, row.hotel_id),
     name_th |-> OrElse(updateData.name_th, row.name_th),
     name_en |-> OrElse(updateData.name_en, row.name_en),
     slug |-> IF updateData.slug = Null THEN row.slug ELSE updateData.slug]

\* RoomsService.updateRoom; store calls: 1 getRoomById, 2 verifyHotelExists,
\* 3 the names, 4 the slug, 5 update the room, 6 update options, 7 update
\* base prices, 8 delete override prices, 9 insert override prices.  The
\* object returned after the last call names updatedOverridePricesResult,
\* which no statement declares: building it throws a ReferenceError, and
\* the catch clause turns it into a failure.
updateRoom(rm, d, id, updateData, failAt) ==
    LET currentRoom == getRoomById(rm, d, id, failAt = 1)
        cur == currentRoom.data.room
        hasRoomData == \E f \in roomFields : updateData[f] # Null
        newHotel == updateData.hotel_id # Null /\ updateData.hotel_id[1] # cur.hotel_id
        hotelCheck == verifyHotelExists(updateData.hotel_id[1], failAt = 2)
        targetHotelId == OrElse(updateData.hotel_id, cur.hotel_id)
        checkNames == updateData.name_th # Null \/ updateData.name_en # Null
                         \/ updateData.hotel_id # Null
        duplicateCheck == checkDuplicateRoomName(d.room_cols,
                              OrElse(updateData.name_th, cur.name_th),
                              OrElse(updateData.name_en, cur.name_en),
                              targetHotelId, Some(id), failAt = 3)
        conflicts ==
            \/ /\ duplicateCheck.duplicates.name_th
               /\ updateData.name_th # Null \/ updateData.hotel_id # Null
            \/ /\ duplicateCheck.duplicates.name_en
               /\ updateData.name_en # Null \/ updateData.hotel_id # Null
        slugCheck == checkDuplicateSlug(d.room_cols, updateData.slug[1], Some(id), failAt = 4)
        rm5 == IF updateData.total_rooms # Null
               THEN [rm EXCEPT ![id] = updateData.total_rooms[1]] ELSE rm
        d5 == IF hasRoomData
              THEN [d EXCEPT !.room_cols[id] = UpdatedCols(@, updateData)] ELSE d
        d6 == IF updateData.room_options # Null
              THEN [d5 EXCEPT !.room_options[id] = updateData.room_options] ELSE d5
        d7 == IF updateData.base_prices # Null
              THEN [d6 EXCEPT !.room_base_prices[id] = updateData.base_prices] ELSE d6
        d8 == IF updateData.override_prices # Null THEN WithoutOverridePrices(d7, id) ELSE d7
        prices == OrElse(updateData.override_prices, << >>)
        d9 == [d8 EXCEPT !.room_override_prices = @ \cup OverrideRows(id, prices)]
    IN IF ~currentRoom.success
       THEN [rm |-> rm, db |-> d, out |-> Failure("Room not found")]
       ELSE IF updateData.total_rooms # Null /\ BelowOne(updateData.total_rooms)
       THEN [rm |-> rm, db |-> d, out |-> Failure("Total rooms must be at least 1")]
       ELSE IF newHotel /\ ~hotelCheck.success
       THEN [rm |-> rm, db |-> d, out |-> Failure(hotelCheck.error)]
       ELSE IF checkNames /\ ~duplicateCheck.success
       THEN [rm |-> rm, db |-> d, out |-> Failure(duplicateCheck.error)]
       ELSE IF checkNames /\ duplicateCheck.hasDuplicates /\ conflicts
       THEN [rm |-> rm, db |-> d, out |-> Failure(DuplicateNames)]
       ELSE IF updateData.slug # Null /\ ~slugCheck.success
       THEN [rm |-> rm, db |-> d, out |-> Failure(slugCheck.error)]
       ELSE IF updateData.slug # Null /\ slugCheck.hasDuplicate
       THEN [rm |-> rm, db |-> d, out |-> Failure("Duplicate slug: already exists")]
       ELSE IF hasRoomData /\ failAt = 5
       THEN [rm |-> rm, db |-> d, out |-> Failure("Failed to update room")]
       ELSE IF updateData.room_options # Null /\ (failAt = 6 \/ id \notin DOMAIN d.room_options)
       THEN [rm |-> rm5, db |-> d5, out |-> Failure("Failed to update room options")]
       ELSE IF updateData.base_prices # Null /\ (failAt = 7 \/ id \notin DOMAIN d.room_base_prices)
       THEN [rm |-> rm5, db |-> d6, out |-> Failure("Failed to update base prices")]
       ELSE IF updateData.override_prices # Null /\ failAt = 8
       THEN [rm |-> rm5, db |-> d7, out |-> Failure("Failed to update override prices")]
       ELSE IF prices # << >> /\ failAt = 9
       THEN [rm |-> rm5, db |-> d8, out |-> Failure("Failed to update override prices")]
       ELSE [rm |-> rm5, db |-> d9,
             out |-> Failure("updatedOverridePricesResult is not defined")]

\* RoomsController.updateRoom and createRoom: the status of the answer
RoomsController_updateRoom(out) ==
    IF out.success THEN 200
    ELSE IF out.error \in {DuplicateNames, "Duplicate slug: already exists"} THEN 409
    ELSE IF out.error \in {"Room not found", "Hotel not found"} THEN 404
    ELSE 400

RoomsController_createRoom(out) ==
    IF out.success THEN 201
    ELSE IF out.error \in {DuplicateNames, "Duplicate slug: already exists"} THEN 409
    ELSE 400

\* SpecRoomAdmin: rooms are created, updated and deleted while the engine
\* books them
MaxRooms == 1               \* rooms created in one run of SpecRoomAdmin

CreateRoom(roomData, failAt) ==
    LET r == createRoom(rooms, db, roomData, failAt)
    IN /\ db.roomSeq < MaxRooms
       /\ rooms' = r.rm
       /\ db' = r.db
       /\ res' = [op |-> "createRoom", data |-> roomData, failAt |-> failAt,
                  status |-> RoomsController_createRoom(r.out), out |-> r.out]
       /\ UNCHANGED <<mw, bookings, nextId, procs>>

UpdateRoom(id, updateData, failAt) ==
    LET r == updateRoom(rooms, db, id, updateData, failAt)
    IN /\ rooms' = r.rm
       /\ db' = r.db
       /\ res' = [op |-> "updateRoom", id |-> id, data |-> updateData, failAt |-> failAt,
                  status |-> RoomsController_updateRoom(r.out), out |-> r.out]
       /\ UNCHANGED <<mw, bookings, nextId, procs>>

DeleteRoom(id, failAt) ==
    LET r == deleteRoom(bookings, rooms, db, id, failAt)
    IN /\ rooms' = r.rm
       /\ db' = r.db
       /\ res' = [op |-> "deleteRoom", id |-> id, failAt |-> failAt,
                  status |-> RoomsController_deleteRoom(r.out), out |-> r.out]
       /\ UNCHANGED <<mw, bookings, nextId, procs>>

GoodRoom ==
    [hotel_id |-> "h1", name_th |-> "new", name_en |-> "new",
     total_rooms |-> Some(Some(1)), slug |-> Null, room_options |-> Some("bed"),
     base_prices |-> Some(100), override_prices |-> Null]

\* total_rooms as a request may carry it: undefined, null, a number
TotalRoomsInputs == {Null, Some(Null), Some(Some(0)), Some(Some(-1)), Some(Some(2))}

RoomCreateInputs ==
    {[GoodRoom EXCEPT !.total_rooms = t] : t \in TotalRoomsInputs}
    \cup {[GoodRoom EXCEPT !.hotel_id = UnknownHotel],
          [GoodRoom EXCEPT !.name_en = "r1"],
          [GoodRoom EXCEPT !.slug = Some("r1")],
          [GoodRoom EXCEPT !.slug = Some("new"), !.override_prices = Some(<<150>>)]}

NoRoomFields ==
    [hotel_id |-> Null, name_th |-> Null, name_en |-> Null, total_rooms |-> Null,
     slug |-> Null, room_options |-> Null, base_prices |-> Null, override_prices |-> Null]

FullRoomUpdate ==
    [NoRoomFields EXCEPT !.total_rooms = Some(Some(2)), !.room_options = Some("fan"),
                         !.base_prices = Some(200), !.override_prices = Some(<<180>>)]

RoomUpdateInputs ==
    {[NoRoomFields EXCEPT !.total_rooms = t] : t \in TotalRoomsInputs}
    \cup {[NoRoomFields EXCEPT !.name_th = Some("r2")],
          [NoRoomFields EXCEPT !.slug = Some("r2")],
          [NoRoomFields EXCEPT !.hotel_id = Some(UnknownHotel)],
          [NoRoomFields EXCEPT !.override_prices = Some(<< >>)],
          FullRoomUpdate}

RoomBookingInputs ==
    [user_id : Users, hotel_id : Hotels, room_id : {"r1"}, date : {1}, price : {100},
     note : {Null}]

NextRoomAdmin ==
    \/ \E roomData \in RoomCreateInputs : CreateRoom(roomData, 0)
    \/ \E id \in {"r1", UnknownRoom}, updateData \in RoomUpdateInputs :
          UpdateRoom(id, updateData, 0)
    \/ \E failAt \in {1, 6, 9} : UpdateRoom("r1", FullRoomUpdate, failAt)
    \/ \E id \in {"r1", UnknownRoom}, failAt \in 0 .. 6 : DeleteRoom(id, failAt)
    \/ \E data \in RoomBookingInputs : CreateBooking(data, 0)
    \/ \E id \in BookingIds : CancelBooking(id, 0)

SpecRoomAdmin == Init /\ [][NextRoomAdmin]_vars

---------------------------------------------------------------------------
(***************************************************************************)
(* Lists with pagination (bookingService.js getAllBookings and             *)
(* getBookingsByDateRange, with their controllers).                        *)
(***************************************************************************)
MaxItems == 7               \* rows of the table SpecPages starts with
MaxLimit == 100             \* limitNum > 100 is refused

\* Math.ceil(count / limit) for count >= 0 and limit >= 1
CeilFloor(count, limit) == count \div limit
Ceil(count, limit) ==
    IF count % limit = 0 THEN count \div limit ELSE count \div limit + 1

\* the pagination block of a list result
Pagination(page, limit, count) ==
    LET totalPages == Ceil(count, limit)
    IN [currentPage |-> page, totalPages |-> totalPages, totalItems |-> count,
        itemsPerPage |-> limit, hasNextPage |-> page < totalPages,
        hasPrevPage |-> page > 1]

\* .range(offset, offset + limit - 1) of the rows in an order given as the
\* number of rows that come before each row
Range(rows, before, offset, limit) ==
    {i \in rows : before[i] >= offset /\ before[i] <= offset + limit - 1}

\* BookingService.getAllBookings; store calls: 1 the count, 2 the rows in
\* order of creation, newest first
getAllBookings(bk, page, limit, filters, failAt) ==
    LET offset == (page - 1) * limit
        rows == {i \in DOMAIN bk : /\ filters.date # Null => bk[i].date = filters.date[1]
                                   /\ filters.status # Null => bk[i].status = filters.status[1]}
        count == Cardinality(rows)
        newer == [i \in rows |-> Cardinality({j \in rows : j > i})]
    IN IF failAt = 1 THEN Failure("Failed to get bookings count")
       ELSE IF failAt = 2 THEN Failure("Database error")
       ELSE [success |-> TRUE, data |-> Range(rows, newer, offset, limit),
             pagination |-> Pagination(page, limit, count)]

\* BookingService.getBookingsByDateRange; store calls: 1 the count, 2 the
\* rows by date (rows of one date in the order of their ids)
getBookingsByDateRange(bk, startDate, endDate, page, limit, failAt) ==
    LET offset == (page - 1) * limit
        rows == {i \in DOMAIN bk : bk[i].date >= startDate /\ bk[i].date <= endDate}
        count == Cardinality(rows)
        earlier == [i \in rows |->
                      Cardinality({j \in rows : \/ bk[j].date < bk[i].date
                                                \/ bk[j].date = bk[i].date /\ j < i})]
    IN IF failAt = 1 THEN Failure("Failed to get bookings count")
       ELSE IF failAt = 2 THEN Failure("Database error")
       ELSE [success |-> TRUE, data |-> Range(rows, earlier, offset, limit),
             pagination |-> Pagination(page, limit, count)]

\* the check of page and limit in both controllers
InvalidPagination(pageNum, limitNum) == pageNum < 1 \/ limitNum < 1 \/ limitNum > MaxLimit

\* BookingController.getAllBookings (GET /api/bookings)
GetAllBookings(query, failAt) ==
    LET result == getAllBookings(bookings, query.page, query.limit, query, failAt)
    IN /\ res' = IF InvalidPagination(query.page, query.limit)
                 THEN [op |-> "GET /", req |-> query, failAt |-> failAt, status |-> 400,
                       out |-> Failure("Invalid pagination parameters")]
                 ELSE [op |-> "GET /", req |-> query, failAt |-> failAt,
                       status |-> IF result.success THEN 200 ELSE 500, out |-> result]
       /\ UNCHANGED <<db, mw, rooms, bookings, nextId, procs>>

\* BookingController.getBookingsByDateRange (GET /api/bookings/date-range)
GetBookingsByDateRange(query, failAt) ==
    LET result == getBookingsByDateRange(bookings, query.start_date, query.end_date,
                                         query.page, query.limit, failAt)
    IN /\ res' = IF query.start_date > query.end_date
                 THEN [op |-> "GET /date-range", req |-> query, failAt |-> failAt,
                       status |-> 400, out |-> Failure("start_date must be before end_date")]
                 ELSE IF InvalidPagination(query.page, query.limit)
                 THEN [op |-> "GET /date-range", req |-> query, failAt |-> failAt,
                       status |-> 400, out |-> Failure("Invalid pagination parameters")]
                 ELSE [op |-> "GET /date-range", req |-> query, failAt |-> failAt,
                       status |-> IF result.success THEN 200 ELSE 500, out |-> result]
       /\ UNCHANGED <<db, mw, rooms, bookings, nextId, procs>>

\* SpecPages: a table of up to MaxItems rows, on alternating dates, every
\* third row cancelled, and the list requests on it
PageInputs == 0 .. 4
LimitInputs == {0, 1, 2, 3, MaxLimit, MaxLimit + 1}

ListedRow(i) ==
    [user_id |-> "u1", hotel_id |-> "h1", room_id |-> "r2", date |-> 1 + (i % 2),
     price |-> 100, note |-> Null, status |-> IF i % 3 = 0 THEN "cancel" ELSE "active"]

InitPages ==
    /\ \E n \in 0 .. MaxItems :
          /\ bookings = [i \in 1 .. n |-> ListedRow(i)]
          /\ nextId = n + 1
    /\ rooms = InitRooms
    /\ res = [op |-> "none"]
    /\ procs = [p \in Procs |-> [pc |-> "idle"]]
    /\ db = InitDb
    /\ mw = InitMw

ListQueries ==
    [page : PageInputs, limit : LimitInputs, date : {Null, Some(1)},
     status : {Null, Some("active")}]

RangeQueries ==
    [page : PageInputs, limit : LimitInputs, start_date : Dates, end_date : Dates]

NextPages ==
    \/ \E query \in ListQueries : GetAllBookings(query, 0)
    \/ \E query \in RangeQueries : GetBookingsByDateRange(query, 0)
    \/ \E failAt \in 1 .. 2 :
          \/ GetAllBookings([page |-> 1, limit |-> 2, date |-> Null, status |-> Null], failAt)
          \/ GetBookingsByDateRange([page |-> 1, limit |-> 2, start_date |-> 1,
                                     end_date |-> 2], failAt)
    \/ CancelBooking(1, 0)

SpecPages == InitPages /\ [][NextPages]_vars

---------------------------------------------------------------------------
(***************************************************************************)
(* Rate limits kept in memory: loginRateLimit (middleware/auth.js) and     *)
(* rateLimitUserRegistration (user validation middleware).  The clock      *)
(* mw.now counts half windows.  For the properties, mw.passed counts the   *)
(* login requests passed on since the client's record was made, and        *)
(* mw.registered lists the times, within the last window, of the           *)
(* registration requests passed on.                                        *)
(***************************************************************************)
MaxTime == 5                \* the clock stops here
windowMs == 2               \* 15 * 60 * 1000 ms
maxAttempts == 5

Clients == {"ip1", "ip2"}   \* req.ip

\* "Clean old entries": the records older than the window are deleted
CleanOld(attempts, now) ==
    [k \in {c \in DOMAIN attempts : ~(now - attempts[c].firstAttempt > windowMs)} |->
        attempts[k]]

\* the limiter with `count > maxAttempts` for `count >= maxAttempts`
loginRateLimitOneMore(attempts, identifier, now) ==
    LET cleaned == CleanOld(attempts, now)
    IN IF identifier \notin DOMAIN cleaned
       THEN [attempts |-> [k \in DOMAIN cleaned \cup {identifier} |->
                             IF k = identifier THEN [count |-> 1, firstAttempt |-> now]
                             ELSE cleaned[k]],
             next |-> TRUE]
       ELSE IF cleaned[identifier].count > maxAttempts
       THEN [attempts |-> cleaned, next |-> FALSE, status |-> 429,
             retryAfter |-> windowMs - (now - cleaned[identifier].firstAttempt)]
       ELSE [attempts |-> [cleaned EXCEPT ![identifier].count = @ + 1], next |-> TRUE]

\* the middleware loginRateLimit() returns, for one request
loginRateLimit(attempts, identifier, now) ==
    LET cleaned == CleanOld(attempts, now)
    IN IF identifier \notin DOMAIN cleaned
       THEN [attempts |-> [k \in DOMAIN cleaned \cup {identifier} |->
                             IF k = identifier THEN [count |-> 1, firstAttempt |-> now]
                             ELSE cleaned[k]],
             next |-> TRUE]
       ELSE IF cleaned[identifier].count >= maxAttempts
       THEN [attempts |-> cleaned, next |-> FALSE, status |-> 429,
             retryAfter |-> windowMs - (now - cleaned[identifier].firstAttempt)]
       ELSE [attempts |-> [cleaned EXCEPT ![identifier].count = @ + 1], next |-> TRUE]

\* attempts.filter((timestamp) => now - timestamp < windowMs)
Recent(timestamps, now) == SelectSeq(timestamps, LAMBDA t : now - t < windowMs)

\* the registration limiter that records the refused requests as well
rateLimitUserRegistrationRecordAll(registrationAttempts, clientIp, now) ==
    LET attempts == IF clientIp \in DOMAIN registrationAttempts
                    THEN registrationAttempts[clientIp] ELSE << >>
        recentAttempts == Recent(attempts, now)
        set(v) == [k \in DOMAIN registrationAttempts \cup {clientIp} |->
                      IF k = clientIp THEN v ELSE registrationAttempts[k]]
    IN IF Len(recentAttempts) >= maxAttempts
       THEN [registrationAttempts |-> set(Append(recentAttempts, now)), next |-> FALSE, status |-> 429]
       ELSE [registrationAttempts |-> set(Append(recentAttempts, now)), next |-> TRUE]

\* rateLimitUserRegistration, for one request
rateLimitUserRegistration(registrationAttempts, clientIp, now) ==
    LET attempts == IF clientIp \in DOMAIN registrationAttempts
                    THEN registrationAttempts[clientIp] ELSE << >>
        recentAttempts == Recent(attempts, now)
        set(v) == [k \in DOMAIN registrationAttempts \cup {clientIp} |->
                      IF k = clientIp THEN v ELSE registrationAttempts[k]]
    IN IF Len(recentAttempts) >= maxAttempts
       THEN [registrationAttempts |-> set(recentAttempts), next |-> FALSE, status |-> 429]
       ELSE [registrationAttempts |-> set(Append(recentAttempts, now)), next |-> TRUE]

\* time passes
Tick ==
    /\ mw.now < MaxTime
    /\ mw' = [mw EXCEPT !.now = @ + 1,
                        !.registered = [c \in DOMAIN @ |-> Recent(@[c], mw.now + 1)]]
    /\ res' = [op |-> "tick"]
    /\ UNCHANGED <<db, rooms, bookings, nextId, procs>>

\* POST /api/admin/login reaches the limiter
LoginRequest(identifier) ==
    LET r == loginRateLimit(mw.attempts, identifier, mw.now)
        fresh == identifier \notin DOMAIN CleanOld(mw.attempts, mw.now)
    IN /\ mw' = [mw EXCEPT !.attempts = r.attempts,
                           !.passed[identifier] =
                               IF ~r.next THEN @ ELSE IF fresh THEN 1 ELSE @ + 1]
       /\ res' = [op |-> "POST /login", ip |-> identifier, now |-> mw.now, out |-> r,
                  before |-> IF identifier \in DOMAIN mw.attempts
                             THEN Some(mw.attempts[identifier]) ELSE Null]
       /\ UNCHANGED <<db, rooms, bookings, nextId, procs>>

\* a registration request reaches the limiter
RegisterRequest(clientIp) ==
    LET r == rateLimitUserRegistration(mw.registrationAttempts, clientIp, mw.now)
    IN /\ mw' = [mw EXCEPT !.registrationAttempts = r.registrationAttempts,
                           !.registered[clientIp] =
                               IF r.next THEN Append(@, mw.now) ELSE @]
       /\ res' = [op |-> "POST /register", ip |-> clientIp, now |-> mw.now, out |-> r]
       /\ UNCHANGED <<db, rooms, bookings, nextId, procs>>

NextLogin ==
    \/ Tick
    \/ \E identifier \in Clients : LoginRequest(identifier)

SpecLogin == Init /\ [][NextLogin]_vars

NextRegister ==
    \/ Tick
    \/ \E clientIp \in Clients : RegisterRequest(clientIp)

SpecRegister == Init /\ [][NextRegister]_vars

---------------------------------------------------------------------------
(***************************************************************************)
(* Authentication (middleware/auth.js authenticateToken and                *)
(* adminController.js refreshToken).  db.user_admin maps the id of each    *)
(* admin to its admin_status.  A request carries what verifyToken makes of *)
(* its token: Null when the token does not verify (bad signature,          *)
(* expired), Some(id) when it does, id the admin named in it.              *)
(***************************************************************************)
Admins == {"a1", "a2"}
AdminStatuses == {"active", "inactive", "suspended"}

\* AdminService.getAdminById: .from("user_admin").eq("id", id).single()
getAdminById(admins, id, fails) ==
    IF fails \/ id \notin DOMAIN admins
    THEN Failure("Admin user not found")
    ELSE [success |-> TRUE, data |-> [id |-> id, admin_status |-> admins[id]]]

\* authenticateToken that does not look at admin_status
authenticateTokenAnyStatus(admins, req, failAt) ==
    IF ~req.header
    THEN [next |-> FALSE, status |-> 401, error |-> "Authentication Required"]
    ELSE IF req.decoded = Null
    THEN [next |-> FALSE, status |-> 401, error |-> "Authentication Failed"]
    ELSE LET adminResult == getAdminById(admins, req.decoded[1], failAt = 1)
         IN IF ~adminResult.success
            THEN [next |-> FALSE, status |-> 401, error |-> "Admin user not found"]
            ELSE [next |-> TRUE, user |-> adminResult.data]

\* authenticateToken for one request
authenticateToken(admins, req, failAt) ==
    IF ~req.header
    THEN [next |-> FALSE, status |-> 401, error |-> "Authentication Required"]
    ELSE IF req.decoded = Null
    THEN [next |-> FALSE, status |-> 401, error |-> "Authentication Failed"]
    ELSE LET adminResult == getAdminById(admins, req.decoded[1], failAt = 1)
         IN IF ~adminResult.success
            THEN [next |-> FALSE, status |-> 401, error |-> "Admin user not found"]
            ELSE IF adminResult.data.admin_status # "active"
            THEN [next |-> FALSE, status |-> 401, error |-> "Admin account is",
                  admin_status |-> adminResult.data.admin_status]
            ELSE [next |-> TRUE, user |-> adminResult.data]

\* AdminController.refreshToken; failAt 1: the store, 2: generateToken
refreshToken(admins, req, failAt) ==
    IF ~req.header
    THEN [status |-> 400, error |-> "Refresh token is required"]
    ELSE IF req.decoded = Null
    THEN [status |-> 401, error |-> "Invalid Refresh Token"]
    ELSE LET adminResult == getAdminById(admins, req.decoded[1], failAt = 1)
         IN IF ~adminResult.success
            THEN [status |-> 401, error |-> "Admin user not found"]
            ELSE IF adminResult.data.admin_status # "active"
            THEN [status |-> 401, error |-> "Admin account is",
                  admin_status |-> adminResult.data.admin_status]
            ELSE IF failAt = 2
            THEN [status |-> 500, error |-> "Token Generation Failed"]
            ELSE [status |-> 200, accessToken |-> adminResult.data.id]

\* a request through authenticateToken to a protected handler
Authenticate(req, failAt) ==
    /\ res' = [op |-> "authenticateToken", req |-> req, failAt |-> failAt,
               out |-> authenticateToken(db.user_admin, req, failAt)]
    /\ UNCHANGED <<db, mw, rooms, bookings, nextId, procs>>

\* POST /api/admin/refresh-token
RefreshToken(req, failAt) ==
    /\ res' = [op |-> "refreshToken", req |-> req, failAt |-> failAt,
               out |-> refreshToken(db.user_admin, req, failAt)]
    /\ UNCHANGED <<db, mw, rooms, bookings, nextId, procs>>

\* AdminService.updateAdminStatus: .update({ admin_status }).eq("id", id)
UpdateAdminStatus(id, admin_status) ==
    /\ id \in DOMAIN db.user_admin
    /\ db' = [db EXCEPT !.user_admin[id] = admin_status]
    /\ res' = [op |-> "updateAdminStatus", id |-> id, admin_status |-> admin_status]
    /\ UNCHANGED <<mw, rooms, bookings, nextId, procs>>

\* AdminService.deleteAdmin: .delete().eq("id", id)
DeleteAdmin(id) ==
    /\ id \in DOMAIN db.user_admin
    /\ db' = [db EXCEPT !.user_admin = [a \in DOMAIN @ \ {id} |-> @[a]]]
    /\ res' = [op |-> "deleteAdmin", id |-> id]
    /\ UNCHANGED <<mw, rooms, bookings, nextId, procs>>

TokenRequests == [header : BOOLEAN, decoded : {Null} \cup {Some(a) : a \in Admins}]

NextAuth ==
    \/ \E req \in TokenRequests, failAt \in 0 .. 1 : Authenticate(req, failAt)
    \/ \E req \in TokenRequests, failAt \in 0 .. 2 : RefreshToken(req, failAt)
    \/ \E id \in Admins, admin_status \in AdminStatuses : UpdateAdminStatus(id, admin_status)
    \/ \E id \in Admins : DeleteAdmin(id)

SpecAuth == Init /\ [][NextAuth]_vars

---------------------------------------------------------------------------
(***************************************************************************)
(* Images of a hotel or room (src/src/services/imagesService.js).          *)
(* db.images maps the id of an image to its parent and isThumb; an         *)
(* optional isThumb of a request is Null, Some(TRUE) or Some(FALSE).       *)
(***************************************************************************)
MaxImages == 3              \* images created in one run of SpecImages
ImageParents == {"h1", "h2"}

\* ImagesService.removeExistingThumbnail: .update({ isThumb: false })
\* .eq(parent).eq("isThumb", true) [.neq("id", exclude)]; the callers do not
\* look at its result, so a failed call leaves the table and goes unnoticed
removeExistingThumbnail(im, parentId, excludeImageId, fails) ==
    IF fails THEN im
    ELSE [i \in DOMAIN im |->
            IF /\ im[i].parent = parentId
               /\ im[i].isThumb
               /\ excludeImageId # Null => i # excludeImageId[1]
            THEN [im[i] EXCEPT !.isThumb = FALSE]
            ELSE im[i]]

\* the record inserted for one image: isThumb: imageData.isThumb || false
imageRecord(parentId, imageData) ==
    [parent |-> parentId, img_url |-> imageData.img_url,
     isThumb |-> OrElse(imageData.isThumb, FALSE)]

\* ImagesService.createImageFromUrl; store calls: 1 verifyParentExists,
\* 2 removeExistingThumbnail, 3 getNextOrderNumber, 4 insert
createImageFromUrl(im, seq, parentId, imageData, failAt) ==
    LET removed == IF imageData.isThumb = Some(TRUE)
                   THEN removeExistingThumbnail(im, parentId, Null, failAt = 2)
                   ELSE im
    IN IF failAt = 1 \/ parentId \notin ImageParents
       THEN [images |-> im, seq |-> seq, out |-> Failure("hotel not found")]
       ELSE IF failAt = 3
       THEN [images |-> removed, seq |-> seq, out |-> Failure("Database error")]
       ELSE IF failAt = 4
       THEN [images |-> removed, seq |-> seq, out |-> Failure("Database insert failed")]
       ELSE [images |-> removed @@ (seq + 1 :> imageRecord(parentId, imageData)),
             seq |-> seq + 1, out |-> [success |-> TRUE, data |-> seq + 1]]

\* the loop of the bulk operations: one insert per image, a failed one noted
\* in errors and the loop going on
RECURSIVE InsertEach(_, _, _, _, _)
InsertEach(acc, parentId, imagesData, i, failAt) ==
    IF i > Len(imagesData) THEN acc
    ELSE IF failAt = 3 + i
    THEN InsertEach([acc EXCEPT !.errors = @ + 1], parentId, imagesData, i + 1, failAt)
    ELSE InsertEach([images |-> acc.images
                                   @@ (acc.seq + 1 :> imageRecord(parentId, imagesData[i])),
                     seq |-> acc.seq + 1, results |-> acc.results + 1,
                     errors |-> acc.errors],
                    parentId, imagesData, i + 1, failAt)

\* ImagesService.createBulkImagesFromUrls and uploadImages; store calls:
\* 1 verifyParentExists, 2 removeExistingThumbnail, 3 getNextOrderNumber,
\* 3 + i the insert (for uploadImages the upload and insert) of image i
createBulkImagesFromUrls(im, seq, parentId, imagesData, failAt) ==
    LET hasNewThumbnail == \E i \in DOMAIN imagesData : imagesData[i].isThumb = Some(TRUE)
        removed == IF hasNewThumbnail
                   THEN removeExistingThumbnail(im, parentId, Null, failAt = 2)
                   ELSE im
        done == InsertEach([images |-> removed, seq |-> seq, results |-> 0, errors |-> 0],
                           parentId, imagesData, 1, failAt)
    IN IF failAt = 1 \/ parentId \notin ImageParents
       THEN [images |-> im, seq |-> seq, out |-> Failure("hotel not found")]
       ELSE IF failAt = 3
       THEN [images |-> removed, seq |-> seq, out |-> Failure("Database error")]
       ELSE [images |-> done.images, seq |-> done.seq,
             out |-> [success |-> done.errors = 0, totalCreated |-> done.results,
                      totalFailed |-> done.errors]]

uploadImages(im, seq, parentId, imagesData, failAt) ==
    createBulkImagesFromUrls(im, seq, parentId, imagesData, failAt)

\* ImagesService.updateImage; store calls: 1 getImageById,
\* 2 removeExistingThumbnail (the image itself left out), 3 update
updateImage(im, imageId, updateData, failAt) ==
    IF failAt = 1 \/ imageId \notin DOMAIN im
    THEN [images |-> im, out |-> Failure("Image not found")]
    ELSE LET removed == IF updateData.isThumb = Some(TRUE)
                        THEN removeExistingThumbnail(im, im[imageId].parent, Some(imageId),
                                                     failAt = 2)
                        ELSE im
         IN IF failAt = 3
            THEN [images |-> removed, out |-> Failure("Failed to update image")]
            ELSE [images |-> [removed EXCEPT ![imageId].isThumb = OrElse(updateData.isThumb, @)],
                  out |-> [success |-> TRUE, data |-> imageId]]

ImageCall(op, args, failAt, r) ==
    /\ r.seq <= MaxImages
    /\ db' = [db EXCEPT !.images = r.images, !.imageSeq = r.seq]
    /\ res' = [op |-> op, args |-> args, failAt |-> failAt, out |-> r.out]
    /\ UNCHANGED <<mw, rooms, bookings, nextId, procs>>

CreateImageFromUrl(parentId, imageData, failAt) ==
    ImageCall("createImageFromUrl", <<parentId, imageData>>, failAt,
              createImageFromUrl(db.images, db.imageSeq, parentId, imageData, failAt))

CreateBulkImagesFromUrls(parentId, imagesData, failAt) ==
    ImageCall("createBulkImagesFromUrls", <<parentId, imagesData>>, failAt,
              createBulkImagesFromUrls(db.images, db.imageSeq, parentId, imagesData, failAt))

UploadImages(parentId, imagesData, failAt) ==
    ImageCall("uploadImages", <<parentId, imagesData>>, failAt,
              uploadImages(db.images, db.imageSeq, parentId, imagesData, failAt))

UpdateImage(imageId, updateData, failAt) ==
    ImageCall("updateImage", <<imageId, updateData>>, failAt,
              [seq |-> db.imageSeq] @@ updateImage(db.images, imageId, updateData, failAt))

IsThumbInputs == {Null, Some(TRUE), Some(FALSE)}
ImageInputs == [img_url : {"a"}, isThumb : IsThumbInputs]

\* one image, or two with the second a thumbnail
ImageLists ==
    {<<d>> : d \in ImageInputs}
    \cup {<<d, [img_url |-> "b", isThumb |-> Some(TRUE)]>> : d \in ImageInputs}

NextImages ==
    \/ \E parentId \in ImageParents \cup {UnknownHotel}, imageData \in ImageInputs,
          failAt \in 0 .. 4 :
          CreateImageFromUrl(parentId, imageData, failAt)
    \/ \E parentId \in ImageParents, imagesData \in ImageLists, failAt \in 0 .. 5 :
          CreateBulkImagesFromUrls(parentId, imagesData, failAt)
    \/ \E parentId \in ImageParents, imagesData \in ImageLists :
          UploadImages(parentId, imagesData, 0)
    \/ \E imageId \in 1 .. MaxImages, isThumb \in {Some(TRUE), Some(FALSE)},
          failAt \in 0 .. 3 :
          UpdateImage(imageId, [isThumb |-> isThumb], failAt)

SpecImages == Init /\ [][NextImages]_vars

---------------------------------------------------------------------------
(* SpecConc: concurrent creation requests.  Every awaited store call is   *)
(* one atomic step; a request keeps what it read in its own locals.       *)

\* the dates a request asks for, in order
DatesOf(q) == IF q.op = "createBooking" THEN <<q.data.date>> ELSE q.data.dates

Finish(p, out) == [procs EXCEPT ![p] = [@ EXCEPT !.pc = "done", !.out = out]]

\* a request arrives: createBooking(data) or createMultipleBookings(data)
Start(p, op, data) ==
    /\ procs[p].pc = "idle"
    /\ procs' = [procs EXCEPT ![p] =
                    [pc |-> "readRoom", op |-> op, data |-> data, i |-> 1,
                     totalRooms |-> Null, unavailableDates |-> << >>, out |-> Null]]
    /\ UNCHANGED <<db, mw, rooms, bookings, nextId, res>>

\* checkRoomAvailability, first call: the room's total_rooms
ReadRoom(p, fails) ==
    /\ procs[p].pc = "readRoom"
    /\ procs' = IF fails \/ procs[p].data.room_id \notin DOMAIN rooms
                THEN Finish(p, Failure("Room not found"))
                ELSE [procs EXCEPT ![p] =
                        [@ EXCEPT !.pc = "count",
                                  !.totalRooms = rooms[procs[p].data.room_id]]]
    /\ UNCHANGED <<db, mw, rooms, bookings, nextId, res>>

\* checkRoomAvailability, second call: the count of active bookings of
\* dates[i], and what the caller does with the answer
Count(p, fails) ==
    /\ procs[p].pc = "count"
    /\ LET q == procs[p]
           date == DatesOf(q)[q.i]
           check == Availability(q.totalRooms,
                                 CountActive(bookings, q.data.room_id, date, NoId))
           unavailableDates ==
               IF check.isAvailable THEN q.unavailableDates
               ELSE Append(q.unavailableDates,
                           UnavailableDate([date |-> date, check |-> check]))
       IN procs' =
            IF fails THEN Finish(p, Failure("Failed to check availability"))
            ELSE IF q.op = "createBooking"
            THEN IF check.isAvailable
                 THEN [procs EXCEPT ![p] = [@ EXCEPT !.pc = "insert"]]
                 ELSE Finish(p, FullyBooked(date, check))
            ELSE IF q.i < Len(DatesOf(q))
            THEN [procs EXCEPT ![p] = [@ EXCEPT !.pc = "readRoom", !.i = q.i + 1,
                                                !.unavailableDates = unavailableDates]]
            ELSE IF unavailableDates # << >>
            THEN Finish(p, [success |-> FALSE,
                            error |-> "Room is fully booked for these dates",
                            unavailableDates |-> unavailableDates])
            ELSE [procs EXCEPT ![p] = [@ EXCEPT !.pc = "insert"]]
    /\ UNCHANGED <<db, mw, rooms, bookings, nextId, res>>

\* the success value of the request that wrote rows `ids`
Created(q, ids) ==
    IF q.op = "createBooking"
    THEN [success |-> TRUE, data |-> ids]
    ELSE [success |-> TRUE, data |-> ids, count |-> Cardinality(ids),
          dates |-> q.data.dates]

\* an insert that first counts again and refuses when a date has filled up
InsertRowsIfFree(p, fails) ==
    /\ procs[p].pc = "insert"
    /\ LET q == procs[p]
           dates == DatesOf(q)
           full == {k \in 1 .. Len(dates) :
                      CountActive(bookings, q.data.room_id, dates[k], NoId)
                          >= ToNumber(q.totalRooms)}
           ids == nextId .. nextId + Len(dates) - 1
       IN IF fails \/ full # {}
          THEN /\ procs' = Finish(p, Failure(IF fails THEN "Failed to create booking"
                                                       ELSE "Room is fully booked for"))
               /\ UNCHANGED <<bookings, nextId>>
          ELSE /\ bookings' = InsertMany(bookings, nextId, q.data, dates)
               /\ nextId' = nextId + Len(dates)
               /\ procs' = Finish(p, Created(q, ids))
    /\ UNCHANGED <<db, mw, rooms, res>>

\* an insert that writes row by row: when the store reports an error the row
\* of the first date is already in the table
InsertRowsPartial(p, fails) ==
    /\ procs[p].pc = "insert"
    /\ LET q == procs[p]
           dates == DatesOf(q)
           ids == nextId .. nextId + Len(dates) - 1
       IN IF fails
          THEN /\ procs' = Finish(p, Failure(IF q.op = "createBooking"
                                              THEN "Failed to create booking"
                                              ELSE "Failed to create bookings"))
               /\ bookings' = InsertMany(bookings, nextId, q.data, <<dates[1]>>)
               /\ nextId' = nextId + 1
          ELSE /\ bookings' = InsertMany(bookings, nextId, q.data, dates)
               /\ nextId' = nextId + Len(dates)
               /\ procs' = Finish(p, Created(q, ids))
    /\ UNCHANGED <<db, mw, rooms, res>>

\* the one insert call of the request: .insert(newBooking) / .insert(bookingsToInsert)
InsertRows(p, fails) ==
    /\ procs[p].pc = "insert"
    /\ LET q == procs[p]
           dates == DatesOf(q)
           ids == nextId .. nextId + Len(dates) - 1
       IN IF fails
          THEN /\ procs' = Finish(p, Failure(IF q.op = "createBooking"
                                              THEN "Failed to create booking"
                                              ELSE "Failed to create bookings"))
               /\ UNCHANGED <<bookings, nextId>>
          ELSE /\ bookings' = InsertMany(bookings, nextId, q.data, dates)
               /\ nextId' = nextId + Len(dates)
               /\ procs' = Finish(p, Created(q, ids))
    /\ UNCHANGED <<db, mw, rooms, res>>

ConcCreateInputs ==
    [user_id : Users, hotel_id : Hotels, room_id : {"r1", "r2", UnknownRoom}, date : Dates,
     price : {100}, note : {Null}]

ConcMultiInputs ==
    [user_id : Users, hotel_id : Hotels, room_id : {"r1"}, dates : DateLists,
     price : {100}, note : {Null}]

NextConc ==
    \/ \E p \in Procs, data \in ConcCreateInputs : Start(p, "createBooking", data)
    \/ \E p \in Procs, data \in ConcMultiInputs : Start(p, "createMultipleBookings", data)
    \/ \E p \in Procs, fails \in BOOLEAN : ReadRoom(p, fails)
    \/ \E p \in Procs, fails \in BOOLEAN : Count(p, fails)
    \/ \E p \in Procs, fails \in BOOLEAN : InsertRows(p, fails)

SpecConc == Init /\ [][NextConc]_vars

---------------------------------------------------------------------------
(* Claims *)

\* the active bookings of a room on a date
ActiveOn(bk, r, d) ==
    {i \in DOMAIN bk : bk[i].room_id = r /\ bk[i].date = d /\ bk[i].status = "active"}

\* true of a step that is the service call `op`
Called(op) == res'.op = op

\* C1: run one at a time, create, batch create, update and cancel never leave
\* more active bookings on a room and date than the room's total_rooms, also
\* after an update of the status alone.
C1_CapacityInvariant ==
    \A r \in DOMAIN rooms, d \in Dates :
        Cardinality(ActiveOn(bookings, r, d)) <= ToNumber(rooms[r])

\* C2: nothing makes the insert of a creation request conditional: a request
\* that passed its availability check writes its rows whatever the table holds
\* by then, and fails only when the store reports an error; so two concurrent
\* requests for one room and date can both succeed and overfill the room.
C2_Step ==
    \A p \in Procs :
        (procs[p].pc = "insert" /\ procs'[p].pc = "done") =>
            LET q == procs[p]
                dates == DatesOf(q)
                added == DOMAIN bookings' \ DOMAIN bookings
            IN \/ /\ procs'[p].out.success
                  /\ procs'[p].out.data = added
                  /\ Cardinality(added) = Len(dates)
                  /\ \A i \in DOMAIN bookings : bookings'[i] = bookings[i]
                  /\ \A k \in 1 .. Len(dates) :
                        \E i \in added : /\ bookings'[i].room_id = q.data.room_id
                                         /\ bookings'[i].date = dates[k]
                                         /\ bookings'[i].status = "active"
               \/ /\ ~procs'[p].out.success
                  /\ procs'[p].out.error \in {"Failed to create booking",
                                              "Failed to create bookings"}
                  /\ bookings' = bookings

C2_InsertUnconditional == [][C2_Step]_vars

\* both requests succeeded and their room holds more active bookings on a
\* date both asked for than its total_rooms
C2_Witness ==
    /\ \A p \in Procs : procs[p].pc = "done" /\ procs[p].out.success
    /\ \E d \in Dates :
          /\ \A p \in Procs : \E k \in 1 .. Len(DatesOf(procs[p])) : DatesOf(procs[p])[k] = d
          /\ \A p \in Procs : procs[p].data.room_id = procs[1].data.room_id
          /\ Cardinality(ActiveOn(bookings, procs[1].data.room_id, d))
                > ToNumber(rooms[procs[1].data.room_id])

\* C3: a batch request for N distinct dates writes no row when one of its
\* dates is unavailable, and when all are available writes exactly N active
\* rows, one per date, and answers count = N.
C3_Step ==
    (Called("createMultipleBookings") /\ res'.data.room_id \in DOMAIN rooms) =>
        LET data == res'.data
            N == Len(data.dates)
            full == {k \in 1 .. N :
                        Cardinality(ActiveOn(bookings, data.room_id, data.dates[k]))
                            >= ToNumber(rooms[data.room_id])}
            added == DOMAIN bookings' \ DOMAIN bookings
        IN /\ full # {} => ~res'.out.success /\ bookings' = bookings
           /\ full = {} =>
                /\ res'.out.success
                /\ res'.out.count = N
                /\ res'.out.data = added
                /\ Cardinality(added) = N
                /\ \A i \in DOMAIN bookings : bookings'[i] = bookings[i]
                /\ \A k \in 1 .. N :
                      Cardinality({i \in added : /\ bookings'[i].date = data.dates[k]
                                                 /\ bookings'[i].room_id = data.room_id
                                                 /\ bookings'[i].status = "active"}) = 1

C3_AllOrNothing == [][C3_Step]_vars

\* a batch of two dates was refused because exactly one of them was full
C3_Witness ==
    /\ res.op = "createMultipleBookings"
    /\ Len(res.data.dates) = 2
    /\ ~res.out.success
    /\ res.out.error = "Room is fully booked for these dates"
    /\ Len(res.out.unavailableDates) = 1
    /\ bookings # << >>

\* C4: a createBooking, createMultipleBookings or updateBooking call that
\* answers a failure, whatever the cause and whichever store call failed,
\* leaves the booking table exactly as it was.
C4_Step ==
    (/\ res'.op \in {"createBooking", "createMultipleBookings", "updateBooking"}
     /\ ~res'.out.success)
        => bookings' = bookings

C4_FailureLeavesStore == [][C4_Step]_vars

\* a batch failed on the room lookup of its second date, with rows in the table
C4_Witness ==
    /\ res.op = "createMultipleBookings"
    /\ Len(res.data.dates) = 2
    /\ res.failAt = 3
    /\ ~res.out.success
    /\ res.out.error = "Room not found"
    /\ bookings # << >>

\* C5: on a room with total_rooms > 0 the availability check answers the number
\* of active bookings of exactly that room and date, the excluded booking
\* left out, availableRooms = totalRooms - currentBookings, and isAvailable
\* exactly when availableRooms > 0.
C5_CheckAvailability ==
    (/\ res.op = "checkRoomAvailability"
     /\ res.room_id \in DOMAIN rooms
     /\ ToNumber(rooms[res.room_id]) > 0)
        => /\ res.out.success
           /\ res.out.totalRooms = rooms[res.room_id]
           /\ res.out.currentBookings =
                 Cardinality(ActiveOn(bookings, res.room_id, res.date) \ {res.exclude})
           /\ res.out.availableRooms = rooms[res.room_id][1] - res.out.currentBookings
           /\ res.out.isAvailable <=> res.out.availableRooms > 0

\* the check left out the one active booking of a full room and date
C5_Witness ==
    /\ res.op = "checkRoomAvailability"
    /\ res.exclude \in ActiveOn(bookings, res.room_id, res.date)
    /\ Cardinality(ActiveOn(bookings, res.room_id, res.date)) = ToNumber(rooms[res.room_id])
    /\ res.out.currentBookings = 0
    /\ res.out.isAvailable

\* C6: for a room whose total_rooms is null or zero the availability check
\* fails with CapacityUnknown, and createBooking fails with that error and
\* not with a fully-booked error.
C6_CapacityUnknown ==
    (/\ res.op \in {"checkRoomAvailability", "createBooking"}
     /\ LET room_id == IF res.op = "createBooking" THEN res.data.room_id ELSE res.room_id
        IN room_id \in DOMAIN rooms /\ rooms[room_id] \in {Null, Some(0)})
        => ~res.out.success /\ res.out.error = "CapacityUnknown"

\* C7: createBooking on a room with total_rooms = k >= 1 succeeds and adds one
\* active row while fewer than k bookings are active on the date, and with k
\* active it fails as fully booked, reporting totalRooms = k and
\* currentBookings = k, and adds nothing.
C7_Step ==
    (/\ Called("createBooking")
     /\ res'.data.room_id \in DOMAIN rooms
     /\ ToNumber(rooms[res'.data.room_id]) >= 1)
        => LET data == res'.data
               k == rooms[data.room_id][1]
               j == Cardinality(ActiveOn(bookings, data.room_id, data.date))
               added == DOMAIN bookings' \ DOMAIN bookings
           IN /\ j < k =>
                   /\ res'.out.success
                   /\ Cardinality(added) = 1
                   /\ res'.out.data = added
                   /\ \A i \in DOMAIN bookings : bookings'[i] = bookings[i]
                   /\ \A i \in added : /\ bookings'[i].room_id = data.room_id
                                       /\ bookings'[i].date = data.date
                                       /\ bookings'[i].status = "active"
                   /\ Cardinality(ActiveOn(bookings', data.room_id, data.date)) = j + 1
              /\ j >= k =>
                   /\ ~res'.out.success
                   /\ res'.out.error = "Room is fully booked for"
                   /\ res'.out.totalRooms = Some(k)
                   /\ res'.out.currentBookings = j
                   /\ bookings' = bookings

C7_FillsToCapacity == [][C7_Step]_vars

\* the third createBooking on a room of two was refused with 2 of 2
C7_Witness ==
    /\ res.op = "createBooking"
    /\ ~res.out.success
    /\ res.out.error = "Room is fully booked for"
    /\ res.out.totalRooms = Some(2)
    /\ res.out.currentBookings = 2
    /\ Cardinality(ActiveOn(bookings, res.data.room_id, res.data.date)) = 2

\* C8: updateBooking with a room_id and/or date checks the effective room and
\* date with the booking itself left out of the count: it fails as fully
\* booked and changes nothing when the other active bookings there number
\* total_rooms, and succeeds when they number fewer.
C8_Step ==
    (/\ Called("updateBooking")
     /\ res'.data.room_id # Null \/ res'.data.date # Null
     /\ res'.id \in DOMAIN bookings
     /\ OrElse(res'.data.room_id, bookings[res'.id].room_id) \in DOMAIN rooms)
        => LET id == res'.id
               data == res'.data
               room_id == IF data.room_id = Null THEN bookings[id].room_id ELSE data.room_id[1]
               date == IF data.date = Null THEN bookings[id].date ELSE data.date[1]
               others == Cardinality(ActiveOn(bookings, room_id, date) \ {id})
           IN /\ others >= ToNumber(rooms[room_id]) =>
                   /\ ~res'.out.success
                   /\ res'.out.error = "Room is fully booked for"
                   /\ bookings' = bookings
              /\ others < ToNumber(rooms[room_id]) =>
                   /\ res'.out.success
                   /\ DOMAIN bookings' = DOMAIN bookings
                   /\ bookings'[id].room_id = room_id
                   /\ bookings'[id].date = date
                   /\ \A i \in DOMAIN bookings \ {id} : bookings'[i] = bookings[i]

C8_UpdateExcludesItself == [][C8_Step]_vars

\* an update to the room and date whose last slot the booking itself held succeeded
C8_Witness ==
    /\ res.op = "updateBooking"
    /\ res.data.date # Null
    /\ res.data.status = Null
    /\ res.out.success
    /\ res.before # Null
    /\ res.before[1].status = "active"
    /\ res.before[1].date = res.data.date[1]
    /\ res.before[1].room_id = bookings[res.id].room_id
    /\ Cardinality(ActiveOn(bookings, res.before[1].room_id, res.before[1].date))
          = ToNumber(rooms[res.before[1].room_id])

\* C9: updateBooking with only price, note and/or status succeeds on every
\* existing booking and applies the fields, however many bookings are active
\* on the booking's room and date, also for status cancel -> active.
C9_Step ==
    (/\ Called("updateBooking")
     /\ res'.data.room_id = Null /\ res'.data.date = Null
     /\ res'.id \in DOMAIN bookings)
        => LET id == res'.id
               data == res'.data
               old == bookings[id]
           IN /\ res'.out.success
              /\ DOMAIN bookings' = DOMAIN bookings
              /\ \A i \in DOMAIN bookings \ {id} : bookings'[i] = bookings[i]
              /\ bookings'[id].price = IF data.price = Null THEN old.price ELSE data.price[1]
              /\ bookings'[id].note = IF data.note = Null THEN old.note ELSE data.note[1]
              /\ bookings'[id].status = IF data.status = Null THEN old.status ELSE data.status[1]
              /\ bookings'[id].room_id = old.room_id
              /\ bookings'[id].date = old.date
              /\ bookings'[id].user_id = old.user_id
              /\ bookings'[id].hotel_id = old.hotel_id

C9_FieldUpdateUnchecked == [][C9_Step]_vars

\* a cancelled booking was set active again on a room and date already full
C9_Witness ==
    /\ res.op = "updateBooking"
    /\ res.data.status = Some("active")
    /\ res.out.success
    /\ res.before # Null
    /\ res.before[1].status = "cancel"
    /\ Cardinality(ActiveOn(bookings, bookings[res.id].room_id, bookings[res.id].date))
          > ToNumber(rooms[bookings[res.id].room_id])

\* C10: cancelBooking on a booking that is already cancelled succeeds and
\* leaves the booking table as the first cancel left it.
C10_Step ==
    (/\ Called("cancelBooking")
     /\ res'.id \in DOMAIN bookings
     /\ bookings[res'.id].status = "cancel")
        => res'.out.success /\ res'.out.data = {res'.id} /\ bookings' = bookings

C10_CancelIdempotent == [][C10_Step]_vars

\* a booking that was already cancelled was cancelled again
C10_Witness ==
    /\ res.op = "cancelBooking"
    /\ res.before # Null
    /\ res.before[1].status = "cancel"
    /\ res.out.success
    /\ bookings[res.id].status = "cancel"

\* C11: cancelBooking on an active booking succeeds without an availability
\* check and sets the status of that booking alone to cancel; an availability
\* check of the booking's room and date then answers currentBookings one lower
\* and availableRooms one higher than before, and a room and date that was
\* full (not available) before the cancel is available and bookable after it.
C11_Step ==
    (/\ Called("cancelBooking")
     /\ res'.id \in DOMAIN bookings
     /\ bookings[res'.id].status = "active")
        => LET id == res'.id
               b == bookings[id]
               was == checkRoomAvailability(bookings, rooms, b.room_id, b.date, NoId, 0)
               now == checkRoomAvailability(bookings', rooms', b.room_id, b.date, NoId, 0)
               again == createBooking(bookings', rooms', nextId', b, 0)
           IN /\ res'.out.success
              /\ bookings' = [bookings EXCEPT ![id].status = "cancel"]
              /\ now.currentBookings = was.currentBookings - 1
              /\ now.availableRooms = was.availableRooms + 1
              /\ ~was.isAvailable => now.isAvailable /\ again.out.success

C11_CancelFreesCapacity == [][C11_Step]_vars

\* C12: the availability answer for a room and date depends on the bookings
\* of that room and date alone: a step that touches no booking of the pair
\* leaves its answer as it was; and a room with total_rooms = 1 whose one
\* active booking is on date X is not available on X and available on every
\* other date.
C12_Frame ==
    LET changed == {i \in DOMAIN bookings \cup DOMAIN bookings' :
                       \/ i \notin DOMAIN bookings
                       \/ i \notin DOMAIN bookings'
                       \/ bookings'[i] # bookings[i]}
        on(bk, i, r, d) == i \in DOMAIN bk /\ bk[i].room_id = r /\ bk[i].date = d
    IN changed # {} =>
          \A r \in RoomInputs, d \in Dates :
             (\A i \in changed : ~on(bookings, i, r, d) /\ ~on(bookings', i, r, d))
                => checkRoomAvailability(bookings', rooms', r, d, NoId, 0)
                      = checkRoomAvailability(bookings, rooms, r, d, NoId, 0)

C12_OneBooking ==
    (/\ res.op = "checkRoomAvailability"
     /\ res.exclude = NoId
     /\ res.room_id \in DOMAIN rooms
     /\ rooms[res.room_id] = Some(1))
        => \A X \in Dates :
              (/\ Cardinality(ActiveOn(bookings, res.room_id, X)) = 1
               /\ \A Y \in Dates \ {X} : ActiveOn(bookings, res.room_id, Y) = {})
                  => (res.out.isAvailable <=> res.date # X)

C12_PerRoomAndDate == [][C12_Frame /\ C12_OneBooking']_vars

\* room r1 holds one active booking, on the other date, room r2 is booked on
\* the date asked about, and the check of r1 answers available
C12_Witness ==
    /\ res.op = "checkRoomAvailability"
    /\ res.room_id = "r1"
    /\ res.out.isAvailable
    /\ \E X \in Dates \ {res.date} : Cardinality(ActiveOn(bookings, "r1", X)) = 1
    /\ ActiveOn(bookings, "r2", res.date) # {}

\* C13: getBookingById called with the id a successful createBooking has just
\* returned answers a record with status active and exactly the submitted
\* user, hotel, room, date, price and note, whatever note was submitted, an
\* empty one included.
C13_Step ==
    (/\ res.op = "createBooking"
     /\ res.out.success
     /\ Called("getBookingById")
     /\ res'.id \in res.out.data)
        => /\ res'.out.success
           /\ res'.out.data.status = "active"
           /\ res'.out.data.user_id = res.data.user_id
           /\ res'.out.data.hotel_id = res.data.hotel_id
           /\ res'.out.data.room_id = res.data.room_id
           /\ res'.out.data.date = res.data.date
           /\ res'.out.data.price = res.data.price
           /\ res'.out.data.note = res.data.note

C13_RoundTrip == [][C13_Step]_vars

\* C16: deleteBooking removes the row with the given id, returns that row and
\* leaves every other row as it was; the availability check of the row's room
\* and date then counts one booking fewer when the row was active (and the
\* same number when it was cancelled); with an id that has no row, or when
\* the store reports an error, the call fails and the table is unchanged.
C16_Step ==
    Called("deleteBooking") =>
        LET id == res'.id
        IN IF id \in DOMAIN bookings /\ res'.failAt = 0
           THEN LET b == bookings[id]
                    was == checkRoomAvailability(bookings, rooms, b.room_id, b.date, NoId, 0)
                    now == checkRoomAvailability(bookings', rooms', b.room_id, b.date, NoId, 0)
                IN /\ res'.out.success
                   /\ res'.out.data = [id |-> id, row |-> b]
                   /\ DOMAIN bookings' = DOMAIN bookings \ {id}
                   /\ \A i \in DOMAIN bookings' : bookings'[i] = bookings[i]
                   /\ now.currentBookings =
                         was.currentBookings - (IF b.status = "active" THEN 1 ELSE 0)
           ELSE ~res'.out.success /\ bookings' = bookings

C16_DeleteRemovesRow == [][C16_Step]_vars

\* an active booking was deleted from a room and date that held another one
C16_Witness ==
    /\ res.op = "deleteBooking"
    /\ res.out.success
    /\ res.out.data.row.status = "active"
    /\ res.id \notin DOMAIN bookings
    /\ Cardinality(ActiveOn(bookings, res.out.data.row.room_id, res.out.data.row.date)) = 1

\* C17: the availability check writes nothing: whatever its input and its
\* outcome (available, not available, room not found, store error), the
\* booking table and the room directory are the same after the call as before.
C17_Step ==
    Called("checkRoomAvailability") => bookings' = bookings /\ rooms' = rooms

C17_CheckReadOnly == [][C17_Step]_vars

\* a check whose count query reported a store error, with a cancelled and an
\* active row of that room and date in the table
C17_Witness ==
    /\ res.op = "checkRoomAvailability"
    /\ res.failAt = 2
    /\ ~res.out.success
    /\ \E i, j \in DOMAIN bookings :
          /\ bookings[i].room_id = res.room_id /\ bookings[i].date = res.date
          /\ bookings[j].room_id = res.room_id /\ bookings[j].date = res.date
          /\ bookings[i].status = "cancel"
          /\ bookings[j].status = "active"

\* C18: a batch request refused for availability names every unavailable date
\* of the request, in request order, each with the room's totalRooms and that
\* date's currentBookings, and names no date that was available.
C18_Step ==
    (Called("createMultipleBookings") /\ res'.data.room_id \in DOMAIN rooms) =>
        LET data == res'.data
            N == Len(data.dates)
            each == [k \in 1 .. N |->
                        [date |-> data.dates[k],
                         totalRooms |-> rooms[data.room_id],
                         currentBookings |->
                            Cardinality(ActiveOn(bookings, data.room_id, data.dates[k]))]]
            expected == SelectSeq(SubSeq(each, 1, N),
                                  LAMBDA u : u.currentBookings >= ToNumber(u.totalRooms))
        IN expected # << >> =>
              /\ ~res'.out.success
              /\ res'.out.error = "Room is fully booked for these dates"
              /\ res'.out.unavailableDates = expected

C18_ReportsEveryDate == [][C18_Step]_vars

\* a batch of two dates was refused and the error names both
C18_Witness ==
    /\ res.op = "createMultipleBookings"
    /\ ~res.out.success
    /\ res.out.error = "Room is fully booked for these dates"
    /\ Len(res.out.unavailableDates) = 2
    /\ res.out.unavailableDates[1].date # res.out.unavailableDates[2].date

\* C19: the room-detail availability operations count bookings with status
\* confirmed or checked_in only, the engine writes active and cancel only; so
\* on every table the engine produces they answer, for a room with
\* total_rooms > 0, zero booked rooms and isAvailable = true, also for a room
\* and date the engine's own check reports as full.
C19_StatusMismatch ==
    /\ \A i \in DOMAIN bookings : bookings[i].status \in Statuses \ BookedStatuses
    /\ (/\ res.op = "RoomsService.checkRoomAvailability"
        /\ res.roomId \in DOMAIN rooms
        /\ ToNumber(rooms[res.roomId]) > 0)
          => /\ res.out.success
             /\ res.out.data.bookedRooms = 0
             /\ res.out.data.availableRooms = rooms[res.roomId][1]
             /\ res.out.data.isAvailable
    /\ (/\ res.op = "getCurrentRoomAvailability"
        /\ res.roomId \in DOMAIN rooms
        /\ ToNumber(rooms[res.roomId]) > 0)
          => /\ res.out.success
             /\ res.out.data.occupiedRooms = 0
             /\ res.out.data.isAvailable
             /\ res.out.data.status = "available"

\* the room-detail check answers available for a room and date range on
\* which the engine's check answers not available
C19_Witness ==
    /\ res.op = "RoomsService.checkRoomAvailability"
    /\ res.out.success
    /\ res.out.data.isAvailable
    /\ \A d \in res.checkInDate .. res.checkOutDate :
          LET engine == checkRoomAvailability(bookings, rooms, res.roomId, d, NoId, 0)
          IN engine.success /\ ~engine.isAvailable /\ engine.currentBookings > 0

\* C20: whatever other requests do in between, a batch request for N dates
\* adds 0 or N rows: it reaches its insert call only after all N checks, the
\* table changes in no step of it but that one call, which adds all N rows
\* at once or none, and afterwards the table holds all of its rows (the
\* request succeeded) or none of them.
C20_Batch(p) ==
    procs[p].pc # "idle" /\ procs[p].op = "createMultipleBookings"

C20_State ==
    \A p \in Procs :
        C20_Batch(p) =>
            LET q == procs[p]
                N == Len(q.data.dates)
            IN /\ q.pc = "insert" => q.i = N /\ q.unavailableDates = << >>
               /\ (q.pc = "done" /\ q.out.success) =>
                     /\ Cardinality(q.out.data) = N
                     /\ q.out.data \subseteq DOMAIN bookings
                     /\ \A k \in 1 .. N : \E i \in q.out.data :
                           bookings[i] = NewBooking(q.data, q.data.dates[k])

C20_Step ==
    LET added == DOMAIN bookings' \ DOMAIN bookings
    IN /\ DOMAIN bookings \subseteq DOMAIN bookings'
       /\ \A i \in DOMAIN bookings : bookings'[i] = bookings[i]
       /\ \A p \in Procs :
             (C20_Batch(p) /\ procs'[p] # procs[p]) =>
                 \/ added = {}
                 \/ /\ procs[p].pc = "insert"
                    /\ procs'[p].pc = "done"
                    /\ procs'[p].out.success
                    /\ procs'[p].out.data = added
                    /\ Cardinality(added) = Len(procs[p].data.dates)
       /\ C20_State'

C20_ZeroOrNRows == [][C20_Step]_vars

\* a batch of two dates and a single request for the same room both ran to
\* success, the single one inserting between the batch's checks and its
\* insert: the table holds the batch's two rows and the room is overfilled
C20_Witness ==
    \E p, o \in Procs :
        /\ p # o
        /\ procs[p].pc = "done" /\ procs[p].op = "createMultipleBookings"
        /\ procs[p].out.success
        /\ Len(procs[p].data.dates) = 2
        /\ procs[o].pc = "done" /\ procs[o].op = "createBooking"
        /\ procs[o].out.success
        /\ \A i \in procs[o].out.data : \A j \in procs[p].out.data : i < j
        /\ procs[o].data.room_id = procs[p].data.room_id
        /\ Cardinality(ActiveOn(bookings, procs[o].data.room_id, procs[o].data.date))
              > ToNumber(rooms[procs[o].data.room_id])

\* C14: a create request with a malformed UUID, a missing or non-positive
\* price, an invalid or past date, more than 30 dates or a repeated date, and
\* an update request with a non-positive price, a status outside
\* {active, cancel}, a malformed room_id or an invalid or past date, is
\* answered with a validation error (400) and no store call is issued for it.
C14_DatesOfBody(body) ==
    IF isMultipleDates(body) THEN body.dates[1]
    ELSE IF body.date # Null THEN <<body.date[1]>>
    ELSE << >>

C14_MalformedCreate(body) ==
    LET dates == C14_DatesOfBody(body)
    IN \/ \E f \in {"user_id", "hotel_id", "room_id"} :
             body[f] # Null /\ body[f][1] \notin UUIDs
       \/ body.price = Null \/ body.price[1] <= 0
       \/ \E k \in 1 .. Len(dates) : NewDate(dates[k]) = Null \/ NewDate(dates[k])[1] < Today
       \/ Len(dates) > MaxDates
       \/ \E k, l \in 1 .. Len(dates) : k # l /\ NewDate(dates[k]) = NewDate(dates[l])

C14_MalformedUpdate(body) ==
    \/ body.price # Null /\ body.price[1] <= 0
    \/ body.status # Null /\ body.status[1] \notin {"active", "cancel"}
    \/ body.room_id # Null /\ body.room_id[1] \notin UUIDs
    \/ body.date # Null /\ (NewDate(body.date[1]) = Null \/ NewDate(body.date[1])[1] < Today)

C14_ValidationFirst ==
    /\ (res.op = "POST /" /\ C14_MalformedCreate(res.req.body))
          => res.status = 400 /\ res.calls = 0
    /\ (res.op = "PUT /:id" /\ C14_MalformedUpdate(res.req.body))
          => res.status = 400 /\ res.calls = 0

\* C15: on every booking operation a referenced room or booking that does not
\* exist is answered with the not-found status (404), not with the status of
\* a validation failure (400) or of an internal failure (500).
C15_RoomAbsent ==
    \/ /\ res.op = "POST /"
       /\ CreateErrors(res.req.body) = << >>
       /\ isSingleDate(res.req.body) \/ isMultipleDates(res.req.body)
       /\ res.req.body.room_id[1] \notin DOMAIN rooms
    \/ /\ res.op = "PUT /:id"
       /\ uuidRegexId(res.req.id)
       /\ UpdateErrors(res.req.body) = << >>
       /\ res.req.body.room_id # Null
       /\ res.req.body.room_id[1] \notin DOMAIN rooms
    \/ /\ res.op = "GET /room/:roomId/availability"
       /\ uuidRegex(res.req.roomId)
       /\ res.req.date # Null
       /\ NewDate(res.req.date[1]) # Null
       /\ res.req.roomId \notin DOMAIN rooms

C15_BookingAbsent ==
    \/ /\ res.op = "PUT /:id"
       /\ uuidRegexId(res.req.id)
       /\ UpdateErrors(res.req.body) = << >>
       /\ res.req.body # NoFields
       /\ res.req.id \notin DOMAIN bookings
    \/ /\ res.op \in {"PATCH /:id/cancel", "GET /:id"}
       /\ uuidRegexId(res.req.id)
       /\ res.req.id \notin DOMAIN bookings
    \/ /\ res.op = "DELETE /:id"
       /\ uuidRegexId(res.req.id)
       /\ res.status # 200
       /\ res.req.id \notin DOMAIN bookings

C15_NotFoundDistinct ==
    (C15_RoomAbsent \/ C15_BookingAbsent) => res.status = 404

\* C21: every booking row has status active or cancel in every reachable
\* state: a create request writes only active, a cancel request writes only
\* cancel, and an update request with any other status value is rejected
\* and changes no row.
C21_Domain == \A i \in DOMAIN bookings : bookings[i].status \in {"active", "cancel"}

C21_Step ==
    /\ C21_Domain'
    /\ res'.op = "POST /" =>
          \A i \in DOMAIN bookings' \ DOMAIN bookings : bookings'[i].status = "active"
    /\ res'.op = "PATCH /:id/cancel" =>
          \A i \in DOMAIN bookings : bookings'[i] # bookings[i] => bookings'[i].status = "cancel"
    /\ (/\ res'.op = "PUT /:id"
        /\ res'.req.body.status # Null
        /\ res'.req.body.status[1] \notin {"active", "cancel"})
          => res'.status \in {400, 500} /\ bookings' = bookings

C21_StatusDomain == [][C21_Step]_vars

\* an update with the empty status has been rejected for an existing booking
C21_Witness ==
    /\ res.op = "PUT /:id"
    /\ res.req.body.status = Some("")
    /\ res.req.id \in DOMAIN bookings
    /\ bookings[res.req.id].status = "active"
    /\ res.status = 400

\* C22: a room that has bookings cannot be deleted: whenever at least one
\* booking row references the room, among them the rows the engine creates
\* with status active, deleteRoom fails with the conflict (409) and the room,
\* its options, base prices and override prices are unchanged.
C22_Step ==
    (/\ res'.op = "deleteRoom"
     /\ res'.id \in DOMAIN rooms
     /\ \E i \in DOMAIN bookings : bookings[i].room_id = res'.id)
        => /\ ~res'.out.success
           /\ res'.failAt = 0 => res'.status = 409
           /\ rooms' = rooms
           /\ db' = db

C22_BookedRoomKept == [][C22_Step]_vars

\* C23: updateRoom on an existing room with valid fields that conflict with
\* no other room, every store call answering, returns success with the
\* updated room, and the controller answers 200.
C23_Valid(id, data) ==
    /\ id \in DOMAIN rooms
    /\ data.total_rooms # Null => data.total_rooms[1] # Null /\ data.total_rooms[1][1] >= 1
    /\ data.hotel_id # Null => data.hotel_id[1] \in Hotels
    /\ \A r \in DOMAIN rooms \ {id} :
          /\ data.name_th # Null => db.room_cols[r].name_th # data.name_th[1]
          /\ data.name_en # Null => db.room_cols[r].name_en # data.name_en[1]
          /\ data.slug # Null => db.room_cols[r].slug # data.slug
    /\ data.room_options # Null => id \in DOMAIN db.room_options
    /\ data.base_prices # Null => id \in DOMAIN db.room_base_prices

C23_Step ==
    (/\ res'.op = "updateRoom"
     /\ res'.failAt = 0
     /\ C23_Valid(res'.id, res'.data))
        => res'.out.success /\ res'.status = 200

C23_UpdateSucceeds == [][C23_Step]_vars

\* C28: room capacity is always configured: a room created or updated through
\* RoomsService has total_rooms >= 1 afterwards; createRoom with a missing,
\* null, zero or negative total_rooms and updateRoom with a supplied
\* total_rooms below 1 (null included) fail before any row is written.
C28_Unset(v) == v = Null \/ v[1] < 1

C28_Step ==
    /\ \A r \in DOMAIN rooms' :
          C28_Unset(rooms'[r]) => r \in DOMAIN rooms /\ rooms[r] = rooms'[r]
    /\ (/\ res'.op = "createRoom"
        /\ \/ res'.data.total_rooms = Null
           \/ C28_Unset(res'.data.total_rooms[1]))
          => ~res'.out.success /\ rooms' = rooms /\ db' = db
    /\ (/\ res'.op = "updateRoom"
        /\ res'.data.total_rooms # Null
        /\ C28_Unset(res'.data.total_rooms[1]))
          => ~res'.out.success /\ rooms' = rooms /\ db' = db

C28_CapacityConfigured == [][C28_Step]_vars

\* a room has been created, and an update of an existing room to a null
\* total_rooms has just been refused
C28_Witness ==
    /\ res.op = "updateRoom"
    /\ res.data.total_rooms = Some(Null)
    /\ res.id \in DOMAIN rooms
    /\ ~res.out.success
    /\ res.out.error = "Total rooms must be at least 1"
    /\ \E r \in DOMAIN rooms \ RoomIds : rooms[r] = Some(2)

\* C24: the pagination block of every list result with page >= 1,
\* 1 <= limit <= 100 and totalItems >= 0: totalPages is the ceiling of
\* totalItems / limit, hasPrevPage is true exactly when page > 1, and
\* hasNextPage is true exactly when page * limit < totalItems.
C24_Block(p) ==
    /\ p.totalPages * p.itemsPerPage >= p.totalItems
    /\ (p.totalPages - 1) * p.itemsPerPage < p.totalItems \/ p.totalPages = 0
    /\ p.totalPages >= 0
    /\ p.hasPrevPage <=> p.currentPage > 1
    /\ p.hasNextPage <=> p.currentPage * p.itemsPerPage < p.totalItems
    /\ p.hasNextPage <=> p.currentPage < p.totalPages

C24_Matching ==
    IF res.op = "GET /"
    THEN {i \in DOMAIN bookings :
            /\ res.req.date # Null => bookings[i].date = res.req.date[1]
            /\ res.req.status # Null => bookings[i].status = res.req.status[1]}
    ELSE {i \in DOMAIN bookings : bookings[i].date \in res.req.start_date .. res.req.end_date}

C24_Pagination ==
    (res.op \in {"GET /", "GET /date-range"} /\ res.status = 200)
        => /\ res.req.page >= 1 /\ res.req.limit \in 1 .. MaxLimit
           /\ res.out.pagination.currentPage = res.req.page
           /\ res.out.pagination.itemsPerPage = res.req.limit
           /\ res.out.pagination.totalItems = Cardinality(C24_Matching)
           /\ C24_Block(res.out.pagination)

\* the second of three pages: rows before and after it
C24_Witness ==
    /\ res.op = "GET /"
    /\ res.status = 200
    /\ res.req.page = 2
    /\ res.req.limit = 2
    /\ res.out.pagination.totalItems = 5
    /\ res.out.pagination.totalPages = 3
    /\ res.out.pagination.hasNextPage
    /\ res.out.pagination.hasPrevPage

\* C25: login rate limit: from the creation of a client's attempt record to
\* its removal at most maxAttempts login requests of the client are passed
\* on and every further one is answered 429; a record is removed only when
\* more than windowMs has passed since its first attempt; a refused request
\* leaves the record as it is, so the first request after the window is
\* passed on again.
C25_Live(c) ==
    c \in DOMAIN mw.attempts /\ mw.now - mw.attempts[c].firstAttempt <= windowMs

C25_Step ==
    /\ \A c \in DOMAIN mw'.attempts : mw'.passed[c] <= maxAttempts
    /\ \A k \in DOMAIN mw.attempts \ DOMAIN mw'.attempts :
          mw.now - mw.attempts[k].firstAttempt > windowMs
    /\ res'.op = "POST /login" =>
          LET c == res'.ip
          IN /\ (C25_Live(c) /\ mw.passed[c] >= maxAttempts)
                   => /\ ~res'.out.next
                      /\ res'.out.status = 429
                      /\ mw'.attempts[c] = mw.attempts[c]
             /\ (C25_Live(c) /\ mw.passed[c] < maxAttempts)
                   => /\ res'.out.next
                      /\ mw'.attempts[c].firstAttempt = mw.attempts[c].firstAttempt
             /\ ~C25_Live(c)
                   => /\ res'.out.next
                      /\ mw'.attempts[c].firstAttempt = mw.now
                      /\ mw'.passed[c] = 1
             /\ \A k \in Clients \ {c} : C25_Live(k) => mw'.attempts[k] = mw.attempts[k]

C25_LoginRateLimit == [][C25_Step]_vars

\* a client that had used up its attempts is passed on again after the window
C25_Witness ==
    /\ res.op = "POST /login"
    /\ res.out.next
    /\ res.before # Null
    /\ res.before[1].count = maxAttempts
    /\ res.now - res.before[1].firstAttempt > windowMs
    /\ mw.attempts[res.ip] = [count |-> 1, firstAttempt |-> res.now]

\* C26: registration rate limit: of each client at most 5 requests are
\* passed on in any interval shorter than the window; a request is answered
\* 429 exactly when 5 requests of the client passed on less than a window
\* ago; a refused request is not recorded and does not delay re-admission.
C26_Step ==
    /\ \A c \in Clients : Len(mw'.registered[c]) <= maxAttempts
    /\ res'.op = "POST /register" =>
          LET c == res'.ip
              admitted == Recent(mw.registered[c], mw.now)
          IN /\ ~res'.out.next <=> Len(admitted) = maxAttempts
             /\ ~res'.out.next =>
                   /\ res'.out.status = 429
                   /\ mw'.registrationAttempts[c] = admitted
             /\ res'.out.next => mw'.registrationAttempts[c] = Append(admitted, mw.now)
             /\ \A k \in Clients \ {c} :
                   /\ k \in DOMAIN mw.registrationAttempts
                         => mw'.registrationAttempts[k] = mw.registrationAttempts[k]
                   /\ k \in DOMAIN mw'.registrationAttempts
                         => k \in DOMAIN mw.registrationAttempts

C26_RegistrationRateLimit == [][C26_Step]_vars

\* a request refused for five requests spread over two instants
C26_Witness ==
    /\ res.op = "POST /register"
    /\ ~res.out.next
    /\ Len(mw.registered[res.ip]) = maxAttempts
    /\ mw.registered[res.ip][1] < mw.registered[res.ip][maxAttempts]
    /\ \E k \in Clients \ {res.ip} : Len(mw.registered[k]) = 1

\* C27: deactivation takes effect at once: authenticateToken passes a request
\* on only if its token verifies and the admin named in it exists with
\* admin_status active at that moment; a verifying token of a deleted or
\* non-active admin is answered 401, and refreshToken issues no access token
\* for such an admin.
C27_Active(id) == id \in DOMAIN db.user_admin /\ db.user_admin[id] = "active"

C27_ActiveOnly ==
    /\ res.op = "authenticateToken" =>
          /\ res.out.next => /\ res.req.header
                              /\ res.req.decoded # Null
                              /\ C27_Active(res.req.decoded[1])
          /\ (res.req.header /\ res.req.decoded # Null /\ ~C27_Active(res.req.decoded[1]))
                => ~res.out.next /\ res.out.status = 401
    /\ res.op = "refreshToken" =>
          /\ (res.req.header /\ res.req.decoded # Null /\ ~C27_Active(res.req.decoded[1]))
                => res.out.status = 401
          /\ res.out.status = 200 => /\ res.req.decoded # Null
                                      /\ C27_Active(res.req.decoded[1])

\* a verifying token of a suspended admin has been refused
C27_Witness ==
    /\ res.op = "authenticateToken"
    /\ res.req = [header |-> TRUE, decoded |-> Some("a1")]
    /\ res.failAt = 0
    /\ "a1" \in DOMAIN db.user_admin
    /\ db.user_admin["a1"] = "suspended"
    /\ res.out.status = 401

\* C29: single thumbnail per parent: after any sequence of
\* createImageFromUrl, createBulkImagesFromUrls, uploadImages and
\* updateImage calls, run one at a time, each hotel or room has at most one
\* image with isThumb = true, also when one bulk request marks more than
\* one of its images as thumbnail.
C29_Thumbnails(parentId) ==
    {i \in DOMAIN db.images : db.images[i].parent = parentId /\ db.images[i].isThumb}

C29_SingleThumbnail ==
    \A parentId \in ImageParents : Cardinality(C29_Thumbnails(parentId)) <= 1

\* C30: create dispatch on date vs dates: a create request with a non-empty
\* dates array is handled as a multi-date booking and its date field is
\* ignored (no row is created for date unless it is also in dates, and date
\* is not validated); a request with date and no or empty dates is handled
\* as a single-date booking; a request with neither is rejected with 400
\* before any validation or store access.
C30_Either == "Either 'date' (string) or 'dates' (array) must be provided"

C30_NoDates(body) == body.dates = Null \/ Len(body.dates[1]) = 0

C30_Days(body) == {DayOf(body.dates[1][k]) : k \in 1 .. Len(body.dates[1])}

C30_ErrorTexts(out) ==
    IF "errors" \in DOMAIN out THEN {out.errors[k].msg : k \in 1 .. Len(out.errors)} ELSE {}

C30_Step ==
    LET body == res'.req.body
        new == DOMAIN bookings' \ DOMAIN bookings
    IN res'.op = "POST /" =>
        /\ ~C30_NoDates(body) =>
            /\ \A i \in new : bookings'[i].date \in C30_Days(body)
            /\ res'.status = 201 =>
                /\ "count" \in DOMAIN res'.out
                /\ res'.out.count = Len(body.dates[1])
                /\ {bookings'[i].date : i \in new} = C30_Days(body)
            /\ C30_ErrorTexts(res'.out)
                  \cap {"date must be valid date", "date cannot be in the past"} = {}
        /\ body.date # Null /\ C30_NoDates(body) =>
            /\ Cardinality(new) <= 1
            /\ \A i \in new : bookings'[i].date = DayOf(body.date[1])
            /\ res'.status = 201 => Cardinality(new) = 1 /\ "count" \notin DOMAIN res'.out
            /\ "message" \in DOMAIN res'.out => res'.out.message # C30_Either
            /\ "error" \in DOMAIN res'.out =>
                  res'.out.error # "dates must be a non-empty array"
            /\ NewDate(body.date[1]) = Null =>
                  "date must be valid date" \in C30_ErrorTexts(res'.out)
        /\ body.date = Null /\ C30_NoDates(body) =>
            /\ res'.status = 400
            /\ res'.calls = 0
            /\ res'.out = [success |-> FALSE, message |-> C30_Either]
            /\ bookings' = bookings

C30_Dispatch == [][C30_Step]_vars

\* a request with both fields, its date not among its dates, answered 201
\* with rows for the dates alone
C30_Witness ==
    /\ res.op = "POST /"
    /\ res.status = 201
    /\ res.req.body.date # Null
    /\ ~C30_NoDates(res.req.body)
    /\ NewDate(res.req.body.date[1]) # Null
    /\ DayOf(res.req.body.date[1]) \notin C30_Days(res.req.body)
    /\ \A i \in res.out.data : bookings[i].date \in C30_Days(res.req.body)
====
